---- MODULE Spec2Model ----
(***************************************************************************)
(* Production scheduler (src/src/scheduler): the ProductionScheduler       *)
(* object, the CP-SAT baseline (cp_sat_solver.py), the three scenario      *)
(* runs (scenarios.py), the Flask app with run_all_scenarios and its        *)
(* endpoints (app.py, blueprints), the loader (data_loader.py) and the     *)
(* heuristic schedule_tasks (algorithms.py).                               *)
(*                                                                         *)
(* Time is counted in minutes.  A wall-clock instant is the number of      *)
(* minutes since 2025-08-22 00:00 (a Friday, the day of the scheduler's    *)
(* start_date).  The external CP-SAT solver is a nondeterministic choice:  *)
(* it either fails or returns any assignment that satisfies the            *)
(* constraints the code posted, drawn from a bounded set of start times.   *)
(***************************************************************************)
EXTENDS Integers, Sequences, FiniteSets, TLC

(* ------------------------------ bounds --------------------------------- *)

\* number of grid steps after each base instant offered to the solver
MaxSlot == 1
\* largest head-count the solver adds on top of a team's minimum in scenario 3
MaxExtraCap == 0
\* largest number of rows in a generated task relationships table
MaxRows == 2

(* ------------------------- program constants --------------------------- *)

MINUTES_PER_DAY == 8 * 60
MinutesPerCalendarDay == 24 * 60
OpeningMinute == 6 * 60
MapDays == 365 * 5
MaxWalkDays == 365
late_part_delay_days == 1
MaxCapacity == 100
DefaultDuration == 60
SplitThreshold == 120
MinPartDuration == 60
HorizonSlackDays == 90
StartWeekday == 4
InfiniteSlack == 999
Infinity == 1000000000
SlackLimit == 365 * 24 * 60
MakespanSentinel == 999999
\* scheduler.start_date = datetime(2025, 8, 22, 6, 0)
start_date == OpeningMinute
\* spacing of the start times offered to the solver
GridStep == DefaultDuration

None == ""

(* ----------------------------- helpers --------------------------------- *)

Min(S) == CHOOSE v \in S : \A w \in S : v <= w
Max(S) == CHOOSE v \in S : \A w \in S : v >= w
Range(s) == {s[i] : i \in DOMAIN s}
Get(f, k, default) == IF k \in DOMAIN f THEN f[k] ELSE default

RECURSIVE SumOver(_, _)
SumOver(S, f) ==
  IF S = {} THEN 0
  ELSE LET x == CHOOSE y \in S : TRUE IN f[x] + SumOver(S \ {x}, f)

RECURSIVE Concat(_)
Concat(ss) == IF ss = <<>> THEN <<>> ELSE Head(ss) \o Concat(Tail(ss))

(* --------------------- loaded data (data_loader.py) -------------------- *)
\* Four loaded data sets.  Each is the scheduler state that
\* load_data_from_csv leaves for one CSV file.

MechTask(dur, team, team_skill, type, product) ==
  [duration |-> dur, team |-> team, team_skill |-> team_skill,
   mechanics_required |-> 1, is_quality |-> FALSE, is_customer |-> FALSE,
   task_type |-> type, product |-> product, primary_task |-> None]

InspectionTask(dur, team, team_skill, isq, type, product, primary) ==
  [duration |-> dur, team |-> team, team_skill |-> team_skill,
   mechanics_required |-> 1, is_quality |-> isq, is_customer |-> ~isq,
   task_type |-> type, product |-> product, primary_task |-> primary]

Constraint(first, second, rel, product, dock) ==
  [First |-> first, Second |-> second, Relationship |-> rel,
   Product_Line |-> product, On_Dock_Date |-> dock]

\* One product.  Task 1 has a quality inspection and precedes task 2; late
\* part LP1 needs two mechanics and feeds task 2 with relationship
\* 'Finish = Start'.
ChainCatalog ==
  [name |-> "chain",
   delivery_order |-> <<"P1">>,
   delivery_dates |-> [p \in {"P1"} |-> 4 * MinutesPerCalendarDay],
   holidays |-> [p \in {"P1"} |-> {}],
   task_order |-> <<"P1_1", "P1_2", "P1_QI_101", "LP1">>,
   tasks |-> [t \in {"P1_1", "P1_2", "P1_QI_101", "LP1"} |->
      CASE t = "P1_1" -> MechTask(60, "Mechanic Team 1", "Mechanic Team 1 (Skill 1)", "Production", "P1")
        [] t = "P1_2" -> MechTask(60, "Mechanic Team 1", "Mechanic Team 1 (Skill 1)", "Production", "P1")
        [] t = "P1_QI_101" -> InspectionTask(30, "Quality Team 1", None, TRUE, "Quality Inspection", "P1", "P1_1")
        [] t = "LP1" -> [MechTask(60, "Mechanic Team 1", "Mechanic Team 1 (Skill 1)", "Late Part", "P1")
                           EXCEPT !.mechanics_required = 2]],
   precedence_constraints |-> <<Constraint("1", "2", None, None, 0)>>,
   late_part_constraints |-> <<Constraint("LP1", "2", "Finish = Start", "P1", 1 * MinutesPerCalendarDay)>>,
   rework_constraints |-> <<>>,
   quality_requirements |-> [t \in {"P1_1"} |-> "P1_QI_101"],
   customer_requirements |-> <<>>,
   task_instance_map |-> [k \in {<<"P1", "1">>, <<"P1", "2">>} |->
      IF k[2] = "1" THEN "P1_1" ELSE "P1_2"],
   late_part_tasks |-> {"LP1"},
   on_dock_dates |-> [t \in {"LP1"} |-> 1 * MinutesPerCalendarDay],
   team_capacity |-> [t \in {"Mechanic Team 1 (Skill 1)", "Mechanic Team 1"} |-> 2],
   quality_team_capacity |-> [t \in {"Quality Team 1"} |-> 1],
   customer_team_capacity |-> [t \in {"Customer Team 1"} |-> 2]]

\* Two products sharing one task definition whose team, of capacity 2, has
\* no skill code;
\* product P2 has a holiday on Monday 2025-08-25 that P1 does not have, and
\* P1 is due a day after P2.
TwoProductCatalog ==
  [name |-> "twoproduct",
   delivery_order |-> <<"P1", "P2">>,
   delivery_dates |-> [p \in {"P1", "P2"} |->
      IF p = "P1" THEN 5 * MinutesPerCalendarDay ELSE 4 * MinutesPerCalendarDay],
   holidays |-> [p \in {"P2"} |-> {3}],
   task_order |-> <<"P1_1", "P2_1", "LP2">>,
   tasks |-> [t \in {"P1_1", "P2_1", "LP2"} |->
      CASE t = "P1_1" -> MechTask(60, "Mechanic Team 2", "Mechanic Team 2", "Production", "P1")
        [] t = "P2_1" -> MechTask(60, "Mechanic Team 2", "Mechanic Team 2", "Production", "P2")
        [] t = "LP2" -> MechTask(60, "Mechanic Team 2", "Mechanic Team 2", "Late Part", "P2")],
   precedence_constraints |-> <<>>,
   late_part_constraints |-> <<Constraint("LP2", "1", "Start <= Start", "P2", 1 * MinutesPerCalendarDay)>>,
   rework_constraints |-> <<>>,
   quality_requirements |-> <<>>,
   customer_requirements |-> <<>>,
   task_instance_map |-> [k \in {<<"P1", "1">>, <<"P2", "1">>} |->
      IF k[1] = "P1" THEN "P1_1" ELSE "P2_1"],
   late_part_tasks |-> {"LP2"},
   on_dock_dates |-> [t \in {"LP2"} |-> 1 * MinutesPerCalendarDay],
   team_capacity |-> [t \in {"Mechanic Team 2"} |-> 2],
   quality_team_capacity |-> [t \in {"Quality Team 2"} |-> 1],
   customer_team_capacity |-> <<>>]

\* One product.  Task 1 has a customer inspection and is followed by rework
\* RW1 with relationship 'Start = Start'; late part LP1 names a task that
\* is outside the product's range, so it feeds nothing.
ReworkCatalog ==
  [name |-> "rework",
   delivery_order |-> <<"P1">>,
   delivery_dates |-> [p \in {"P1"} |-> 4 * MinutesPerCalendarDay],
   holidays |-> [p \in {"P1"} |-> {}],
   task_order |-> <<"P1_1", "P1_CC_601", "LP1", "RW1">>,
   tasks |-> [t \in {"P1_1", "P1_CC_601", "LP1", "RW1"} |->
      CASE t = "P1_1" -> MechTask(60, "Mechanic Team 1", "Mechanic Team 1 (Skill 1)", "Production", "P1")
        [] t = "P1_CC_601" -> InspectionTask(30, "Customer Team 1", "Customer Team 1", FALSE, "Customer", "P1", "P1_1")
        [] t = "LP1" -> MechTask(60, "Mechanic Team 1", "Mechanic Team 1 (Skill 1)", "Late Part", "P1")
        [] t = "RW1" -> MechTask(60, "Mechanic Team 1", "Mechanic Team 1 (Skill 1)", "Rework", "P1")],
   precedence_constraints |-> <<>>,
   late_part_constraints |-> <<Constraint("LP1", "9", "Finish <= Start", "P1", 1 * MinutesPerCalendarDay)>>,
   rework_constraints |-> <<Constraint("1", "RW1", "Start = Start", "P1", 0)>>,
   quality_requirements |-> <<>>,
   customer_requirements |-> [t \in {"P1_1"} |-> "P1_CC_601"],
   task_instance_map |-> [k \in {<<"P1", "1">>} |-> "P1_1"],
   late_part_tasks |-> {"LP1"},
   on_dock_dates |-> [t \in {"LP1"} |-> 1 * MinutesPerCalendarDay],
   team_capacity |-> [t \in {"Mechanic Team 1 (Skill 1)", "Mechanic Team 1"} |-> 1],
   quality_team_capacity |-> [t \in {"Quality Team 1"} |-> 1],
   customer_team_capacity |-> [t \in {"Customer Team 1"} |-> 2]]

\* One product due ten working days after the start date; two independent
\* tasks on one mechanic team of capacity 2, the second long enough to be
\* split; no inspections, no late parts.
PlainCatalog ==
  [name |-> "plain",
   delivery_order |-> <<"P1">>,
   delivery_dates |-> [p \in {"P1"} |-> 14 * MinutesPerCalendarDay],
   holidays |-> [p \in {"P1"} |-> {}],
   task_order |-> <<"P1_1", "P1_2">>,
   tasks |-> [t \in {"P1_1", "P1_2"} |->
      CASE t = "P1_1" -> MechTask(60, "Mechanic Team 1", "Mechanic Team 1 (Skill 1)", "Production", "P1")
        [] t = "P1_2" -> MechTask(120, "Mechanic Team 1", "Mechanic Team 1 (Skill 1)", "Production", "P1")],
   precedence_constraints |-> <<>>,
   late_part_constraints |-> <<>>,
   rework_constraints |-> <<>>,
   quality_requirements |-> <<>>,
   customer_requirements |-> <<>>,
   task_instance_map |-> [k \in {<<"P1", "1">>, <<"P1", "2">>} |->
      IF k[2] = "1" THEN "P1_1" ELSE "P1_2"],
   late_part_tasks |-> {},
   on_dock_dates |-> <<>>,
   team_capacity |-> [t \in {"Mechanic Team 1 (Skill 1)", "Mechanic Team 1"} |-> 2],
   quality_team_capacity |-> <<>>,
   customer_team_capacity |-> <<>>]

\* One product whose two tasks each precede the other; late part LP1 feeds
\* task 1.
CycleCatalog ==
  [name |-> "cycle",
   delivery_order |-> <<"P1">>,
   delivery_dates |-> [p \in {"P1"} |-> 4 * MinutesPerCalendarDay],
   holidays |-> [p \in {"P1"} |-> {}],
   task_order |-> <<"P1_1", "P1_2", "LP1">>,
   tasks |-> [t \in {"P1_1", "P1_2", "LP1"} |->
      CASE t = "P1_1" -> MechTask(60, "Mechanic Team 1", "Mechanic Team 1 (Skill 1)", "Production", "P1")
        [] t = "P1_2" -> MechTask(60, "Mechanic Team 1", "Mechanic Team 1 (Skill 1)", "Production", "P1")
        [] t = "LP1" -> MechTask(60, "Mechanic Team 1", "Mechanic Team 1 (Skill 1)", "Late Part", "P1")],
   precedence_constraints |-> <<Constraint("1", "2", None, None, 0),
                                Constraint("2", "1", None, None, 0)>>,
   late_part_constraints |-> <<Constraint("LP1", "1", "Finish <= Start", "P1", 1 * MinutesPerCalendarDay)>>,
   rework_constraints |-> <<>>,
   quality_requirements |-> <<>>,
   customer_requirements |-> <<>>,
   task_instance_map |-> [k \in {<<"P1", "1">>, <<"P1", "2">>} |->
      IF k[2] = "1" THEN "P1_1" ELSE "P1_2"],
   late_part_tasks |-> {"LP1"},
   on_dock_dates |-> [t \in {"LP1"} |-> 1 * MinutesPerCalendarDay],
   team_capacity |-> [t \in {"Mechanic Team 1 (Skill 1)", "Mechanic Team 1"} |-> 1],
   quality_team_capacity |-> <<>>,
   customer_team_capacity |-> <<>>]

\* One product due ten working days after the start date; task 1 of 60
\* minutes precedes task 2 of 120 minutes on one mechanic team of capacity
\* 1; no inspections, no late parts.
SequenceCatalog ==
  [name |-> "sequence",
   delivery_order |-> <<"P1">>,
   delivery_dates |-> [p \in {"P1"} |-> 14 * MinutesPerCalendarDay],
   holidays |-> [p \in {"P1"} |-> {}],
   task_order |-> <<"P1_1", "P1_2">>,
   tasks |-> [t \in {"P1_1", "P1_2"} |->
      CASE t = "P1_1" -> MechTask(60, "Mechanic Team 1", "Mechanic Team 1 (Skill 1)", "Production", "P1")
        [] t = "P1_2" -> MechTask(120, "Mechanic Team 1", "Mechanic Team 1 (Skill 1)", "Production", "P1")],
   precedence_constraints |-> <<Constraint("1", "2", None, None, 0)>>,
   late_part_constraints |-> <<>>,
   rework_constraints |-> <<>>,
   quality_requirements |-> <<>>,
   customer_requirements |-> <<>>,
   task_instance_map |-> [k \in {<<"P1", "1">>, <<"P1", "2">>} |->
      IF k[2] = "1" THEN "P1_1" ELSE "P1_2"],
   late_part_tasks |-> {},
   on_dock_dates |-> <<>>,
   team_capacity |-> [t \in {"Mechanic Team 1 (Skill 1)", "Mechanic Team 1"} |-> 1],
   quality_team_capacity |-> <<>>,
   customer_team_capacity |-> <<>>]

\* One product.  The mechanic rows name 'Team 1 (Skill 1)', so the loader
\* adds the base team 'Team 1' to the mechanic table; the quality table
\* names a team 'Team 1' as well.  Task 1 has a quality inspection; late
\* part LP1 names a task outside the product's range.
OverlapCatalog ==
  [name |-> "overlap",
   delivery_order |-> <<"P1">>,
   delivery_dates |-> [p \in {"P1"} |-> 4 * MinutesPerCalendarDay],
   holidays |-> [p \in {"P1"} |-> {}],
   task_order |-> <<"P1_1", "P1_QI_101", "LP1">>,
   tasks |-> [t \in {"P1_1", "P1_QI_101", "LP1"} |->
      CASE t = "P1_1" -> MechTask(60, "Team 1", "Team 1 (Skill 1)", "Production", "P1")
        [] t = "P1_QI_101" -> InspectionTask(30, "Team 1", None, TRUE, "Quality Inspection", "P1", "P1_1")
        [] t = "LP1" -> MechTask(60, "Team 1", "Team 1 (Skill 1)", "Late Part", "P1")],
   precedence_constraints |-> <<>>,
   late_part_constraints |-> <<Constraint("LP1", "9", "Finish <= Start", "P1", 1 * MinutesPerCalendarDay)>>,
   rework_constraints |-> <<>>,
   quality_requirements |-> [t \in {"P1_1"} |-> "P1_QI_101"],
   customer_requirements |-> <<>>,
   task_instance_map |-> [k \in {<<"P1", "1">>} |-> "P1_1"],
   late_part_tasks |-> {"LP1"},
   on_dock_dates |-> [t \in {"LP1"} |-> 1 * MinutesPerCalendarDay],
   team_capacity |-> [t \in {"Team 1 (Skill 1)", "Team 1"} |-> 1],
   quality_team_capacity |-> [t \in {"Team 1"} |-> 1],
   customer_team_capacity |-> <<>>]

Catalogs ==
  {ChainCatalog, TwoProductCatalog, ReworkCatalog, PlainCatalog, CycleCatalog,
   SequenceCatalog, OverlapCatalog}

(* ----- data_loader.py: loading the relationship tables of a CSV file ---- *)

\* TASK RELATIONSHIPS TABLE: rows of <<First, Second, stated relationship>>
\* under a header that names the relationship column 'Relationship Type',
\* 'Relationship' or not at all.  A key the record lacks reads None.
load_task_relationships(rows, columns) ==
  [i \in DOMAIN rows |->
     [First |-> rows[i][1], Second |-> rows[i][2],
      Relationship |-> IF columns = "Relationship" THEN rows[i][3] ELSE None,
      Relationship_Type |-> IF columns = "none" THEN "Finish <= Start" ELSE rows[i][3],
      Product_Line |-> None, On_Dock_Date |-> 0]]

RelationshipRows ==
  {<<first, second, stated>> : first \in {"1", "2"}, second \in {"1", "2"},
                               stated \in {"Finish <= Start", "Start <= Start"}}

RowLists == UNION {[1..n -> RelationshipRows] : n \in 0..MaxRows}

\* LATE PARTS RELATIONSHIPS TABLE: no row, a row for LP1, or a row for LP7,
\* a part with no row in LATE PARTS TASK DETAILS
load_late_part_relationships(late) ==
  CASE late = "LP1" -> <<Constraint("LP1", "2", "F=S", "P1", 1 * MinutesPerCalendarDay)>>
    [] late = "LP7" -> <<Constraint("LP7", "1", "Finish <= Start", "P1", 1 * MinutesPerCalendarDay)>>
    [] OTHER -> <<>>

\* REWORK RELATIONSHIPS TABLE: no row, or rework RW1 after task 2
load_rework_relationships(rework) ==
  IF rework THEN <<Constraint("2", "RW1", "S=S", "P1", 0)>> ELSE <<>>

LoadedTaskIds(late, rework, has_qi, has_cc) ==
  {"P1_1", "P1_2"} \cup (IF late = "LP1" THEN {"LP1"} ELSE {})
    \cup (IF rework THEN {"RW1"} ELSE {})
    \cup (IF has_qi THEN {"P1_QI_101"} ELSE {})
    \cup (IF has_cc THEN {"P1_CC_601"} ELSE {})

LoadedTask(t) ==
  CASE t = "P1_QI_101" -> InspectionTask(30, "Quality Team 1", None, TRUE, "Quality Inspection", "P1", "P1_1")
    [] t = "P1_CC_601" -> InspectionTask(30, "Customer Team 1", "Customer Team 1", FALSE, "Customer", "P1", "P1_1")
    [] t = "LP1" -> MechTask(60, "Mechanic Team 1", "Mechanic Team 1 (Skill 1)", "Late Part", "P1")
    [] t = "RW1" -> MechTask(60, "Mechanic Team 1", "Mechanic Team 1 (Skill 1)", "Rework", "P1")
    [] OTHER -> MechTask(60, "Mechanic Team 1", "Mechanic Team 1 (Skill 1)", "Production", "P1")

\* what load_data_from_csv leaves for one file of one product with tasks 1
\* and 2, of which task 1 may have a quality and a customer inspection
LoadedCatalog(rows, columns, late, rework, has_qi, has_cc) ==
  [name |-> "loaded",
   delivery_order |-> <<"P1">>,
   delivery_dates |-> [p \in {"P1"} |-> 4 * MinutesPerCalendarDay],
   holidays |-> [p \in {"P1"} |-> {}],
   task_order |-> SelectSeq(<<"P1_1", "P1_2", "P1_QI_101", "P1_CC_601", "LP1", "RW1">>,
                    LAMBDA t : t \in LoadedTaskIds(late, rework, has_qi, has_cc)),
   tasks |-> [t \in LoadedTaskIds(late, rework, has_qi, has_cc) |-> LoadedTask(t)],
   precedence_constraints |-> load_task_relationships(rows, columns),
   late_part_constraints |-> load_late_part_relationships(late),
   rework_constraints |-> load_rework_relationships(rework),
   quality_requirements |-> IF has_qi THEN [t \in {"P1_1"} |-> "P1_QI_101"] ELSE <<>>,
   customer_requirements |-> IF has_cc THEN [t \in {"P1_1"} |-> "P1_CC_601"] ELSE <<>>,
   task_instance_map |-> [k \in {<<"P1", "1">>, <<"P1", "2">>} |->
      IF k[2] = "1" THEN "P1_1" ELSE "P1_2"],
   late_part_tasks |-> IF late = "LP1" THEN {"LP1"} ELSE {},
   on_dock_dates |-> IF late = "none" THEN <<>>
                     ELSE [t \in {late} |-> 1 * MinutesPerCalendarDay],
   team_capacity |-> [t \in {"Mechanic Team 1 (Skill 1)", "Mechanic Team 1"} |-> 1],
   quality_team_capacity |-> [t \in {"Quality Team 1"} |-> 1],
   customer_team_capacity |-> [t \in {"Customer Team 1"} |-> 1]]

LoadedCatalogs ==
  {LoadedCatalog(rows, columns, late, rework, has_qi, has_cc) :
     rows \in RowLists, columns \in {"none", "Relationship", "Relationship Type"},
     late \in {"none", "LP1", "LP7"}, rework \in BOOLEAN,
     has_qi \in BOOLEAN, has_cc \in BOOLEAN}

Tasks(c) == c.tasks
TaskIds(c) == DOMAIN c.tasks

\* str(task_id).isdigit()
DigitIds == {"1", "2", "9"}
IsDigit(id) == id \in DigitIds
\* re.findall(r'\d+', str(id))[0]
FirstNumber(id) ==
  CASE id \in DigitIds -> id
    [] id \in {"LP1", "RW1"} -> "1"
    [] id = "LP2" -> "2"
    [] OTHER -> None
\* ' (Skill ' in team
HasSkillCode(team) == team \in {"Mechanic Team 1 (Skill 1)", "Team 1 (Skill 1)"}

instance_to_product(c) ==
  [t \in {x \in TaskIds(c) : Tasks(c)[x].product # None} |-> Tasks(c)[t].product]

(* ------------------------- utils.py ------------------------------------ *)

normalize_relationship_type(relationship) ==
  CASE relationship = None -> "Finish <= Start"
    [] relationship \in {"FS", "Finish-Start", "F-S"} -> "Finish <= Start"
    [] relationship \in {"F=S", "Finish=Start"} -> "Finish = Start"
    [] relationship \in {"FF", "Finish-Finish", "F-F"} -> "Finish <= Finish"
    [] relationship \in {"SS", "Start-Start", "S-S"} -> "Start <= Start"
    [] relationship \in {"S=S", "Start=Start"} -> "Start = Start"
    [] relationship \in {"SF", "Start-Finish", "S-F"} -> "Start <= Finish"
    [] OTHER -> relationship

\* date.weekday() of calendar day d (Monday = 0)
Weekday(d) == (d + StartWeekday) % 7

is_working_day(c, d, product_line) ==
  IF Weekday(d) >= 5 THEN FALSE
  ELSE IF product_line = None THEN TRUE
  ELSE IF product_line \notin DOMAIN c.holidays THEN TRUE
  ELSE d \notin c.holidays[product_line]

(* ------------------------- constraints.py ------------------------------ *)

get_instance_id(c, task_id, product) ==
  IF IsDigit(task_id)
  THEN Get(c.task_instance_map, <<product, task_id>>, None)
  ELSE task_id

Edge(first, second, rel, product) ==
  [First |-> first, Second |-> second, Relationship |-> rel, Product |-> product]

\* the final link alone, with no inspection woven in
add_direct_dependency(c, predecessor_id, successor_id, relationship, product) ==
  IF predecessor_id = None \/ successor_id = None THEN <<>>
  ELSE <<Edge(predecessor_id, successor_id, relationship, product)>>

\* the chain with the CC link attached to the primary, not to the QI
add_unchained_customer_dependency(c, predecessor_id, successor_id, relationship, product) ==
  LET qr == c.quality_requirements
      cr == c.customer_requirements
      hasQ == predecessor_id \in DOMAIN qr
      hasC == predecessor_id \in DOMAIN cr
      afterQ == IF hasQ THEN qr[predecessor_id] ELSE predecessor_id
      afterC == IF hasC THEN cr[predecessor_id] ELSE afterQ
  IN  IF predecessor_id = None THEN <<>>
      ELSE (IF hasQ THEN <<Edge(predecessor_id, qr[predecessor_id], "Finish <= Start", product)>> ELSE <<>>)
        \o (IF hasC THEN <<Edge(predecessor_id, cr[predecessor_id], "Finish <= Start", product)>> ELSE <<>>)
        \o (IF successor_id # None THEN <<Edge(afterC, successor_id, relationship, product)>> ELSE <<>>)

\* the QI link, the CC link and the final link of one predecessor
add_chained_dependency(c, predecessor_id, successor_id, relationship, product) ==
  LET qr == c.quality_requirements
      cr == c.customer_requirements
      hasQ == predecessor_id \in DOMAIN qr
      hasC == predecessor_id \in DOMAIN cr
      afterQ == IF hasQ THEN qr[predecessor_id] ELSE predecessor_id
      afterC == IF hasC THEN cr[predecessor_id] ELSE afterQ
  IN  IF predecessor_id = None THEN <<>>
      ELSE (IF hasQ THEN <<Edge(predecessor_id, qr[predecessor_id], "Finish <= Start", product)>> ELSE <<>>)
        \o (IF hasC THEN <<Edge(afterQ, cr[predecessor_id], "Finish <= Start", product)>> ELSE <<>>)
        \o (IF successor_id # None THEN <<Edge(afterC, successor_id, relationship, product)>> ELSE <<>>)

all_constraints(c) ==
  c.precedence_constraints \o c.late_part_constraints
    \o c.rework_constraints

product_scope(c, constraint) ==
  IF constraint.Product_Line # None THEN <<constraint.Product_Line>>
  ELSE c.delivery_order

\* the chain of one constraint for one product (constraints.py 38-71)
ConstraintChain(c, constraint, product) ==
  LET predecessor_instance == get_instance_id(c, constraint.First, product)
      successor_instance == get_instance_id(c, constraint.Second, product)
  IN  IF predecessor_instance = None \/ successor_instance = None THEN <<>>
      ELSE add_chained_dependency(c, predecessor_instance, successor_instance,
             normalize_relationship_type(constraint.Relationship), product)

processed_predecessors(c) ==
  {get_instance_id(c, all_constraints(c)[i].First, p) :
     <<i, p>> \in {<<j, q>> \in (DOMAIN all_constraints(c)) \X Range(c.delivery_order) :
        /\ q \in Range(product_scope(c, all_constraints(c)[j]))
        /\ get_instance_id(c, all_constraints(c)[j].First, q) # None
        /\ get_instance_id(c, all_constraints(c)[j].Second, q) # None}}

\* no inspection chains for the tasks that are never predecessors
NoTerminalChains(c) == <<>>

\* Inspections of primaries that are never predecessors; the code walks a
\* Python set, here in the order the tasks were loaded.
TerminalChains(c) ==
  LET ord == c.task_order
      needs(t) == t \in (DOMAIN c.quality_requirements)
                       \cup (DOMAIN c.customer_requirements)
  IN  Concat([i \in DOMAIN ord |->
        IF needs(ord[i]) /\ ord[i] \notin processed_predecessors(c)
        THEN add_chained_dependency(c, ord[i], None, "Finish <= Start",
               Get(instance_to_product(c), ord[i], None))
        ELSE <<>>])

build_dynamic_dependencies(c) ==
  LET ac == all_constraints(c)
  IN  Concat([i \in DOMAIN ac |->
        Concat([k \in DOMAIN product_scope(c, ac[i]) |->
          ConstraintChain(c, ac[i], product_scope(c, ac[i])[k])])])
      \o TerminalChains(c)

\* the list build_dynamic_dependencies returns, per data set
DynamicConstraints == [c \in Catalogs |-> build_dynamic_dependencies(c)]

get_successors(c, task_id) ==
  LET dc == DynamicConstraints[c]
  IN  {dc[i].Second : i \in {j \in DOMAIN dc : dc[j].First = task_id}}

(* ------------------------- validation.py ------------------------------- *)

\* the graph over every edge, whatever its relationship
UnfilteredGraph(dc) ==
  [first \in {dc[i].First : i \in DOMAIN dc} |->
     {dc[i].Second : i \in {j \in DOMAIN dc : dc[j].First = first}}]

\* graph[first]: the successors of first over the finish-to-start edges
DependencyGraph(dc) ==
  [first \in {dc[i].First : i \in DOMAIN dc} |->
     {dc[i].Second : i \in {j \in DOMAIN dc :
        /\ dc[j].First = first
        /\ dc[j].Relationship \in {"Finish <= Start", "Finish = Start"}}}]

all_tasks_in_constraints(dc) ==
  {dc[i].First : i \in DOMAIN dc} \cup {dc[i].Second : i \in DOMAIN dc}

missing_tasks(c, dc) == all_tasks_in_constraints(dc) \ TaskIds(c)

\* has_cycle_dfs and its loop over the neighbours of a node; the result is
\* whether a cycle was met and the visited set the call leaves
RECURSIVE has_cycle_dfs(_, _, _, _)
RECURSIVE VisitNeighbors(_, _, _, _)
VisitNeighbors(graph, neighbors, visited, rec_stack) ==
  IF neighbors = {} THEN [found |-> FALSE, visited |-> visited]
  ELSE LET neighbor == CHOOSE n \in neighbors : TRUE
       IN  IF neighbor \notin visited
           THEN LET below == has_cycle_dfs(graph, neighbor, visited, rec_stack)
                IN  IF below.found THEN below
                    ELSE VisitNeighbors(graph, neighbors \ {neighbor}, below.visited, rec_stack)
           ELSE IF neighbor \in rec_stack THEN [found |-> TRUE, visited |-> visited]
           ELSE VisitNeighbors(graph, neighbors \ {neighbor}, visited, rec_stack)

has_cycle_dfs(graph, node, visited, rec_stack) ==
  VisitNeighbors(graph, Get(graph, node, {}), visited \cup {node}, rec_stack \cup {node})

\* for node in all_tasks_in_constraints: if node not in visited: ...
RECURSIVE VisitRoots(_, _, _)
VisitRoots(graph, nodes, visited) ==
  IF nodes = {} THEN TRUE
  ELSE LET node == CHOOSE n \in nodes : TRUE
       IN  IF node \in visited THEN VisitRoots(graph, nodes \ {node}, visited)
           ELSE LET below == has_cycle_dfs(graph, node, visited, {})
                IN  IF below.found THEN FALSE
                    ELSE VisitRoots(graph, nodes \ {node}, below.visited)

ValidateEdges(c, dc) ==
  IF missing_tasks(c, dc) # {} THEN FALSE
  ELSE VisitRoots(DependencyGraph(dc), all_tasks_in_constraints(dc), {})

validate_dag(c) == ValidateEdges(c, build_dynamic_dependencies(c))

(* ------------- scenarios.py: the scenarios' model of time -------------- *)
\* Scenario time counts working minutes, MINUTES_PER_DAY per working day of
\* the first product of delivery_dates, from the earliest on-dock date.

ScenarioHorizon(c) ==
  SumOver(TaskIds(c), [t \in TaskIds(c) |-> Tasks(c)[t].duration])
    + Cardinality(TaskIds(c)) * 2 * MINUTES_PER_DAY

project_start_date(c) == Min({c.on_dock_dates[t] : t \in DOMAIN c.on_dock_dates})
ProjectStartDay(c) == project_start_date(c) \div MinutesPerCalendarDay

generic_product_line(c) ==
  IF c.delivery_order = <<>> THEN None ELSE Head(c.delivery_order)

\* current_date.date() in date_to_minutes_map
InDateMap(c, d) ==
  /\ generic_product_line(c) # None
  /\ d >= ProjectStartDay(c)
  /\ d < ProjectStartDay(c) + MapDays
  /\ is_working_day(c, d, generic_product_line(c))

\* date_to_minutes_map[d] for a day d of the map
DateMapValue(c, d) ==
  MINUTES_PER_DAY *
    Cardinality({x \in ProjectStartDay(c)..(d - 1) : is_working_day(c, x, generic_product_line(c))})

RECURSIVE DateWalk(_, _, _)
DateWalk(c, d, walked) ==
  IF InDateMap(c, d) THEN DateMapValue(c, d)
  ELSE IF walked + 1 > MaxWalkDays THEN ScenarioHorizon(c)
  ELSE DateWalk(c, d + 1, walked + 1)

\* t is a wall-clock instant; the result is a scenario minute
date_to_minutes(c, t) == DateWalk(c, t \div MinutesPerCalendarDay, 0)

\* number of days in the scenario's maps
MappedDayCount ==
  [c \in Catalogs |->
     IF DOMAIN c.on_dock_dates = {} THEN 0 ELSE
     Cardinality({d \in ProjectStartDay(c)..(ProjectStartDay(c) + MapDays - 1) : InDateMap(c, d)})]

RECURSIVE NthMappedDay(_, _, _)
NthMappedDay(c, d, n) ==
  IF is_working_day(c, d, generic_product_line(c))
  THEN IF n = 0 THEN d ELSE NthMappedDay(c, d + 1, n - 1)
  ELSE NthMappedDay(c, d + 1, n)

\* m is a scenario minute; the result is a wall-clock instant
minutes_to_date(c, m) ==
  IF m >= 0 /\ m < MINUTES_PER_DAY * MappedDayCount[c]
  THEN NthMappedDay(c, ProjectStartDay(c), m \div MINUTES_PER_DAY) * MinutesPerCalendarDay
         + OpeningMinute + (m % MINUTES_PER_DAY)
  ELSE project_start_date(c)

(* ------------- scenarios.py: the constraints of the CP model ----------- *)
\* An assignment s gives every task instance its start, in scenario minutes.

\* task_info.get('duration', 0) or 60
IntervalDuration(c, t) ==
  IF Tasks(c)[t].duration = 0 THEN DefaultDuration ELSE Tasks(c)[t].duration

EndOf(c, s, t) == s[t] + IntervalDuration(c, t)

\* task_id in mechanic_blocking_intervals
HasBlockingInterval(c, t) ==
  /\ Tasks(c)[t].task_type \in {"Production", "Rework", "Late Part"}
  /\ t \in DOMAIN c.quality_requirements
  /\ c.quality_requirements[t] \in TaskIds(c)

blocking_duration(c, t) ==
  IntervalDuration(c, t) + Tasks(c)[c.quality_requirements[t]].duration

IntervalVarsOK(c, s) ==
  \A t \in TaskIds(c) :
    /\ s[t] >= 0
    /\ EndOf(c, s, t) <= ScenarioHorizon(c)
    /\ HasBlockingInterval(c, t) => s[t] + blocking_duration(c, t) <= ScenarioHorizon(c)

\* every dynamic edge is posted as start(succ) >= end(pred)
ScenarioPrecedenceOK(c, s) ==
  \A i \in DOMAIN DynamicConstraints[c] :
    LET e == DynamicConstraints[c][i]
    IN  (e.First \in TaskIds(c) /\ e.Second \in TaskIds(c))
          => s[e.Second] >= EndOf(c, s, e.First)

earliest_start_minutes(c, pred_id) ==
  date_to_minutes(c, c.on_dock_dates[pred_id]
                       + late_part_delay_days * MinutesPerCalendarDay)
    + MINUTES_PER_DAY - 1

ScenarioLatePartOK(c, s) ==
  \A i \in DOMAIN c.late_part_constraints :
    LET lp == c.late_part_constraints[i]
        pred_id == lp.First
        succ_id == IF lp.Product_Line # None /\ FirstNumber(lp.Second) # None
                   THEN Get(c.task_instance_map, <<lp.Product_Line, FirstNumber(lp.Second)>>, None)
                   ELSE None
    IN  /\ (pred_id \in TaskIds(c) /\ pred_id \in DOMAIN c.on_dock_dates)
             => s[pred_id] >= earliest_start_minutes(c, pred_id)
        /\ (pred_id \in TaskIds(c) /\ succ_id \in TaskIds(c))
             => s[succ_id] >= EndOf(c, s, pred_id)

\* AddCumulative over the intervals iv (task -> <<start, end>>) of members
Cumulative(members, iv, demand, capacity) ==
  \A t \in members :
    SumOver({u \in members : iv[u][1] <= iv[t][1] /\ iv[t][1] < iv[u][2]}, demand) <= capacity

TruncDiv(x, d) == IF x >= 0 THEN x \div d ELSE -((-x) \div d)

\* AddDivisionEquality(lateness, completion - due, MINUTES_PER_DAY)
LatenessValue(completion, due) == TruncDiv(completion - due, MINUTES_PER_DAY)

\* lateness = NewIntVar(0, horizon): the division result must lie in it
LatenessFeasible(completion, due, horizon) ==
  /\ LatenessValue(completion, due) >= 0
  /\ LatenessValue(completion, due) <= horizon

product_final_tasks(c, product) ==
  {t \in TaskIds(c) : get_successors(c, t) = {} /\ Get(instance_to_product(c), t, None) = product}

FinalProducts(c) ==
  {p \in DOMAIN c.delivery_dates : product_final_tasks(c, p) # {}}

Completion(c, s, product) == Max({EndOf(c, s, t) : t \in product_final_tasks(c, product)})

ScenarioLatenessOK(c, s, products) ==
  /\ \A p \in products :
       LatenessFeasible(Completion(c, s, p), date_to_minutes(c, c.delivery_dates[p]),
                        ScenarioHorizon(c))
  /\ SumOver(products, [p \in products |->
       LatenessValue(Completion(c, s, p), date_to_minutes(c, c.delivery_dates[p]))])
       <= ScenarioHorizon(c)

\* the start times offered to the solver in a scenario
ScenarioStarts(c) ==
  {b + k * GridStep :
     b \in {0} \cup {earliest_start_minutes(c, t) : t \in DOMAIN c.on_dock_dates},
     k \in 0..MaxSlot}

\* assignments that satisfy the interval, precedence and late-part constraints
ScenarioBaseFeasible ==
  [c \in Catalogs |->
     IF DOMAIN c.on_dock_dates = {} THEN {} ELSE
     {y : y \in {s \in [TaskIds(c) -> ScenarioStarts(c)] :
        /\ IntervalVarsOK(c, s)
        /\ ScenarioPrecedenceOK(c, s)
        /\ ScenarioLatePartOK(c, s)}}]

\* ... and the lateness constraints of scenario_1 and scenario_3
ScenarioTimeFeasible ==
  [c \in Catalogs |->
     {y : y \in {s \in ScenarioBaseFeasible[c] :
        ScenarioLatenessOK(c, s, FinalProducts(c))}}]

(* ------------- scenarios.py: fixed-capacity resources ------------------ *)

\* {**_original_team_capacity, **_original_quality_capacity,
\*  **_original_customer_team_capacity}
OriginalCapacities(c) ==
  LET m == c.team_capacity
      q == c.quality_team_capacity
      k == c.customer_team_capacity
  IN  [t \in (DOMAIN m) \cup (DOMAIN q) \cup (DOMAIN k) |->
         IF t \in DOMAIN k THEN k[t] ELSE IF t \in DOMAIN q THEN q[t] ELSE m[t]]

\* task_assigned_team of scenario_1 and of the what-if scenario
FixedAssignedTeam(c, team, t) ==
  LET is_quality_team == team \in DOMAIN c.quality_team_capacity
      is_customer_team == team \in DOMAIN c.customer_team_capacity
  IN  IF is_quality_team /\ Tasks(c)[t].is_quality THEN Tasks(c)[t].team
      ELSE IF is_customer_team /\ Tasks(c)[t].is_customer THEN Tasks(c)[t].team
      ELSE IF ~is_quality_team /\ ~is_customer_team THEN Tasks(c)[t].team_skill
      ELSE None

\* the interval a task contributes to a team's cumulative constraint
ResourceInterval(c, s, t, is_mechanic_team) ==
  IF is_mechanic_team /\ HasBlockingInterval(c, t)
  THEN <<s[t], s[t] + blocking_duration(c, t)>>
  ELSE <<s[t], EndOf(c, s, t)>>

Demands(c) == [t \in TaskIds(c) |-> Tasks(c)[t].mechanics_required]

FixedCapacityOK(c, s) ==
  \A team \in DOMAIN OriginalCapacities(c) :
    LET members == {t \in TaskIds(c) : FixedAssignedTeam(c, team, t) = team}
        is_mechanic_team == /\ team \notin DOMAIN c.quality_team_capacity
                            /\ team \notin DOMAIN c.customer_team_capacity
    IN  Cumulative(members,
                   [t \in members |-> ResourceInterval(c, s, t, is_mechanic_team)],
                   Demands(c), OriginalCapacities(c)[team])

\* what the solver may return for scenario_1
Scenario1Solutions ==
  [c \in Catalogs |->
     {y : y \in {s \in ScenarioTimeFeasible[c] : FixedCapacityOK(c, s)}}]

\* the products run_what_if_scenario may be asked to prioritize
WhatIfProducts(c) == Range(c.delivery_order)

\* what the solver may return for the what-if scenario: lateness is
\* constrained for the products other than the prioritized one
WhatIfSolutions ==
  [c \in Catalogs |-> [prioritized_product \in WhatIfProducts(c) |->
     {y : y \in {s \in ScenarioBaseFeasible[c] :
        /\ ScenarioLatenessOK(c, s, FinalProducts(c) \ {prioritized_product})
        /\ FixedCapacityOK(c, s)}}]]

\* total_lateness_days, which scenario_1 minimizes
Scenario1Objective(c, s) ==
  SumOver(FinalProducts(c), [p \in FinalProducts(c) |->
    LatenessValue(Completion(c, s, p), date_to_minutes(c, c.delivery_dates[p]))])

\* prioritized_product_completion_var
PrioritizedCompletion(c, s, prioritized_product) ==
  IF product_final_tasks(c, prioritized_product) # {}
  THEN Completion(c, s, prioritized_product) ELSE 0

\* an objective that rewards a late completion of the prioritized product
DelayingObjective(c, s, prioritized_product) ==
  0 - 1000 * PrioritizedCompletion(c, s, prioritized_product)

\* what run_what_if_scenario minimizes
WhatIfObjective(c, s, prioritized_product) ==
  1000 * PrioritizedCompletion(c, s, prioritized_product)
    + 10 * SumOver(FinalProducts(c) \ {prioritized_product},
             [p \in FinalProducts(c) \ {prioritized_product} |->
               LatenessValue(Completion(c, s, p), date_to_minutes(c, c.delivery_dates[p]))])

(* ------------- scenarios.py: scenario 3's capacity variables ----------- *)

\* assigned_team of scenario_3's requirement and cumulative loops
Scenario3AssignedTeam(c, t) ==
  IF Tasks(c)[t].is_quality \/ Tasks(c)[t].is_customer
  THEN Tasks(c)[t].team ELSE Tasks(c)[t].team_skill

\* a capacity variable with no lower bound
no_minimum_requirement(c, team) == 0

\* team_max_requirement.get(team, 1)
team_max_requirement(c, team) ==
  Max({1} \cup {Tasks(c)[t].mechanics_required :
                  t \in {u \in TaskIds(c) : Scenario3AssignedTeam(c, u) = team}})

\* the domain of capacity_<team>
CapacityDomain(c, team) == team_max_requirement(c, team)..MaxCapacity

\* the capacity values offered to the solver: the minimum plus a common
\* surplus, or the maximum
CapacityChoices(c, teams) ==
  {[team \in teams |-> Min({team_max_requirement(c, team) + extra, MaxCapacity})] :
     extra \in 0..MaxExtraCap}
    \cup {[team \in teams |-> MaxCapacity]}

Scenario3CapacityOK(c, s, teams, mechanic_skill_teams, capacity) ==
  \A team \in teams :
    LET members == {t \in TaskIds(c) : Scenario3AssignedTeam(c, t) = team}
    IN  /\ capacity[team] \in CapacityDomain(c, team)
        /\ members # {} =>
             Cumulative(members,
                        [t \in members |-> ResourceInterval(c, s, t, team \in mechanic_skill_teams)],
                        Demands(c), capacity[team])

(* ------------- schedule entries and the priority list ------------------ *)
\* task_schedule maps <<task id, part>> to an entry; part 0 is the entry
\* keyed by the task id itself, part n > 0 the entry keyed 'id---partn'.

Key(t) == <<t, 0>>

Entry(start, end, dur, team, info, shift, split) ==
  [start_time |-> start, end_time |-> end, duration |-> dur, team |-> team,
   team_skill |-> info.team_skill, mechanics_required |-> info.mechanics_required,
   product |-> info.product, task_type |-> info.task_type, shift |-> shift,
   is_quality |-> info.is_quality, is_customer |-> info.is_customer,
   is_split_part |-> split]

\* assigned_team of the entries scenario_1 and scenario_3 write
ScenarioEntryTeam(info) ==
  IF ~info.is_quality /\ ~info.is_customer /\ info.team_skill # None
  THEN info.team_skill ELSE info.team

ScenarioSchedule(c, s) ==
  [k \in {Key(t) : t \in TaskIds(c)} |->
     Entry(minutes_to_date(c, s[k[1]]), minutes_to_date(c, EndOf(c, s, k[1])),
           Tasks(c)[k[1]].duration, ScenarioEntryTeam(Tasks(c)[k[1]]),
           Tasks(c)[k[1]], "1st", FALSE)]

\* the entries of the what-if scenario keep the task's base team
WhatIfSchedule(c, s) ==
  [k \in {Key(t) : t \in TaskIds(c)} |->
     Entry(minutes_to_date(c, s[k[1]]), minutes_to_date(c, EndOf(c, s, k[1])),
           Tasks(c)[k[1]].duration, Tasks(c)[k[1]].team,
           Tasks(c)[k[1]], "1st", FALSE)]

\* sid.startswith(successor_id): the ids of the data sets are prefix-free,
\* so a key starts with an id exactly when it is that id or one of its parts
StartsWith(k, id) == k[1] = id

Max0(x) == IF x > 0 THEN x ELSE 0

\* metrics.calculate_slack_time, in minutes; Infinity stands for float('inf')
calculate_slack_time(c, sched, k, original) ==
  IF k \notin DOMAIN sched THEN Infinity
  ELSE
    LET scheduled_start == sched[k].start_time
        product == IF original \in TaskIds(c) THEN Tasks(c)[original].product ELSE None
        has_delivery == product # None /\ product \in DOMAIN c.delivery_dates
        successors == get_successors(c, original)
        parts(sid) == {x \in DOMAIN sched : StartsWith(x, sid)}
        found == {sid \in successors : parts(sid) # {}}
        required_start(sid) ==
          Min({sched[x].start_time : x \in parts(sid)}) - Tasks(c)[original].duration
        slack == IF found # {}
                 THEN Min({required_start(sid) : sid \in found}) - scheduled_start
                 ELSE c.delivery_dates[product] - scheduled_start
    IN  IF successors = {}
        THEN IF has_delivery
             THEN Max0(c.delivery_dates[product] - scheduled_start)
             ELSE Infinity
        ELSE IF found = {} /\ ~has_delivery THEN Infinity
        ELSE IF slack > SlackLimit \/ -slack > SlackLimit THEN Infinity
        ELSE Max0(slack)

PriorityKey(r, with_slack) == <<r.scheduled_start, IF with_slack THEN r.slack_minutes ELSE 0>>
KeyLeq(a, b) == a[1] < b[1] \/ (a[1] = b[1] /\ a[2] <= b[2])

\* the list is left in the order it was built
Unsorted(seq, with_slack) == seq

\* list.sort: stable, ascending
RECURSIVE SortPriority(_, _)
SortPriority(seq, with_slack) ==
  IF seq = <<>> THEN <<>>
  ELSE LET rest == SortPriority(SubSeq(seq, 1, Len(seq) - 1), with_slack)
           x == seq[Len(seq)]
           n == Cardinality({i \in DOMAIN rest :
                  KeyLeq(PriorityKey(rest[i], with_slack), PriorityKey(x, with_slack))})
       IN  SubSeq(rest, 1, n) \o <<x>> \o SubSeq(rest, n + 1, Len(rest))

\* the keys of a schedule in the order the entries were written
RECURSIVE ScheduleOrder(_, _)
ScheduleOrder(order, sched) ==
  IF order = <<>> THEN <<>>
  ELSE LET t == Head(order)
           own == IF <<t, 0>> \in DOMAIN sched THEN <<(<<t, 0>>)>>
                  ELSE (IF <<t, 1>> \in DOMAIN sched THEN <<(<<t, 1>>)>> ELSE <<>>)
                    \o (IF <<t, 2>> \in DOMAIN sched THEN <<(<<t, 2>>)>> ELSE <<>>)
       IN  own \o ScheduleOrder(Tail(order), sched)

PriorityRecord(k, start, slack) ==
  [task_instance_id |-> k, scheduled_start |-> start, slack_minutes |-> slack]

\* priority_data of scenario_1: sorted by (scheduled_start, slack_hours)
Scenario1PriorityList(c, sched) ==
  LET ord == ScheduleOrder(c.task_order, sched)
  IN  SortPriority([i \in DOMAIN ord |->
        PriorityRecord(ord[i], sched[ord[i]].start_time,
                       calculate_slack_time(c, sched, ord[i], ord[i][1]))], TRUE)

\* priority_data of scenario_3 and what-if: slack 999, sorted by start
FlatPriorityList(c, sched) ==
  LET ord == ScheduleOrder(c.task_order, sched)
  IN  SortPriority([i \in DOMAIN ord |->
        PriorityRecord(ord[i], sched[ord[i]].start_time, InfiniteSlack * 60)], FALSE)

(* ------------- cp_sat_solver.py: the baseline's CP model --------------- *)
\* Baseline time counts calendar minutes from start_date (06:00 of day 0).

\* _calculate_horizon: timedelta.days of (latest_delivery - start_date)
horizon_days(c) ==
  LET latest_delivery == Max({c.delivery_dates[p] : p \in DOMAIN c.delivery_dates})
  IN  ((latest_delivery - start_date) \div MinutesPerCalendarDay) + HorizonSlackDays

BaselineHorizon(c) == horizon_days(c) * MinutesPerCalendarDay

\* days that are a holiday of every product line
common_holidays(c) ==
  LET hol(p) == Get(c.holidays, p, {})
      ps == Range(c.delivery_order)
  IN  IF ps = {} THEN {}
      ELSE {d \in hol(Head(c.delivery_order)) : \A p \in ps : d \in hol(p)}

\* day offsets whose 24-hour block is non-working
NonWorkingOffsets(c) ==
  {d \in 0..(BaselineHorizon(c) \div MinutesPerCalendarDay) :
     Weekday(d) >= 5 \/ d \in common_holidays(c)}

\* _get_working_intervals: the gaps between the non-working blocks
WorkingIntervals ==
  [c \in Catalogs |->
     LET nw == NonWorkingOffsets(c)
         lastEnds == {0} \cup {(d + 1) * MinutesPerCalendarDay : d \in nw}
         nextStart(e) ==
           LET later == {d * MinutesPerCalendarDay : d \in {x \in nw : x * MinutesPerCalendarDay >= e}}
           IN  IF later = {} THEN BaselineHorizon(c) ELSE Min(later)
     IN  {<<e, nextStart(e)>> : e \in {x \in lastEnds : x < nextStart(x)}}]

\* _add_interval_in_working_time_constraint
InWorkingInterval(c, start, end) ==
  \E w \in WorkingIntervals[c] : start >= w[1] /\ end <= w[2]

\* a solver that never divides a task
NeverSplittable(c, t) == FALSE

IsSplittable(c, t) == Tasks(c)[t].duration >= SplitThreshold

\* the entries _extract_solution writes for a task
PartKeys(c, t) == IF IsSplittable(c, t) THEN {<<t, 1>>, <<t, 2>>} ELSE {<<t, 0>>}
BaselineKeys(c) == UNION {PartKeys(c, t) : t \in TaskIds(c)}
FirstPart(c, t) == IF IsSplittable(c, t) THEN <<t, 1>> ELSE <<t, 0>>
LastPart(c, t) == IF IsSplittable(c, t) THEN <<t, 2>> ELSE <<t, 0>>

\* An assignment b has b.start (key -> minute) and b.duration1 (splittable
\* task -> minutes of its first part).
PartDuration(c, b, k) ==
  IF k[2] = 0 THEN Tasks(c)[k[1]].duration
  ELSE IF k[2] = 1 THEN b.duration1[k[1]]
  ELSE Tasks(c)[k[1]].duration - b.duration1[k[1]]

PartEnd(c, b, k) == b.start[k] + PartDuration(c, b, k)

TaskVariablesOK(c, b) ==
  /\ \A k \in BaselineKeys(c) :
       /\ b.start[k] >= 0
       /\ PartEnd(c, b, k) <= BaselineHorizon(c)
       /\ InWorkingInterval(c, b.start[k], PartEnd(c, b, k))
  /\ \A t \in TaskIds(c) :
       IsSplittable(c, t) =>
         /\ b.duration1[t] >= MinPartDuration
         /\ b.duration1[t] <= Tasks(c)[t].duration - MinPartDuration
         /\ PartEnd(c, b, <<t, 1>>) <= b.start[<<t, 2>>]

\* one dynamic edge as _add_precedence_constraints posts it
BaselineEdgeOK(c, b, e) ==
  LET p == LastPart(c, e.First)
      q == FirstPart(c, e.Second)
  IN  CASE e.Relationship = "Finish <= Start" -> PartEnd(c, b, p) <= b.start[q]
        [] e.Relationship = "Finish = Start" -> PartEnd(c, b, p) = b.start[q]
        [] e.Relationship = "Start <= Start" -> b.start[p] <= b.start[q]
        [] e.Relationship = "Start = Start" -> b.start[p] = b.start[q]
        [] e.Relationship = "Finish <= Finish" -> PartEnd(c, b, p) <= PartEnd(c, b, q)
        [] OTHER -> PartEnd(c, b, p) <= b.start[q]

BaselinePrecedenceOK(c, b) ==
  \A i \in DOMAIN DynamicConstraints[c] :
    LET e == DynamicConstraints[c][i]
    IN  (e.First \in TaskIds(c) /\ e.Second \in TaskIds(c)) => BaselineEdgeOK(c, b, e)

\* (on_dock + delay).replace(hour=6) - start_date, in minutes
BaselineEarliestStart(c, t) ==
  ((c.on_dock_dates[t] + late_part_delay_days * MinutesPerCalendarDay)
      \div MinutesPerCalendarDay) * MinutesPerCalendarDay + OpeningMinute - start_date

BaselineLatePartOK(c, b) ==
  \A t \in c.late_part_tasks :
    (t \in TaskIds(c) /\ t \in DOMAIN c.on_dock_dates)
      => b.start[FirstPart(c, t)] >= BaselineEarliestStart(c, t)

\* the resources whose cumulative constraint holds the parts of task t
BaselineResources(c, t) ==
  LET info == Tasks(c)[t]
      primary == info.primary_task
  IN  IF info.is_quality
      THEN (IF info.team # None THEN {info.team} ELSE {})
             \cup (IF primary # None /\ primary \in TaskIds(c) /\ Tasks(c)[primary].team_skill # None
                   THEN {Tasks(c)[primary].team_skill} ELSE {})
      ELSE IF info.is_customer
      THEN (IF info.team # None THEN {info.team} ELSE {})
      ELSE (IF info.team_skill # None THEN {info.team_skill} ELSE {})

\* {**team_capacity, **quality_team_capacity, **customer_team_capacity}
MergedCapacities(m, q, k) ==
  [t \in (DOMAIN m) \cup (DOMAIN q) \cup (DOMAIN k) |->
     IF t \in DOMAIN k THEN k[t] ELSE IF t \in DOMAIN q THEN q[t] ELSE m[t]]

BaselineCapacityOK(c, b, all_resources) ==
  \A r \in DOMAIN all_resources :
    LET members == {k \in BaselineKeys(c) : r \in BaselineResources(c, k[1])}
    IN  (members # {} /\ all_resources[r] > 0) =>
          Cumulative(members,
                     [k \in members |-> <<b.start[k], PartEnd(c, b, k)>>],
                     [k \in members |-> Tasks(c)[k[1]].mechanics_required],
                     all_resources[r])

\* the first instant of working time at or after minute m
NextWorkingMinute(c, m) ==
  IF \E w \in WorkingIntervals[c] : w[1] <= m /\ m < w[2] THEN m
  ELSE Min({w[1] : w \in {x \in WorkingIntervals[c] : x[1] >= m}})

\* the start times offered to the solver in the baseline
BaselineStarts(c) ==
  {b + k * GridStep :
     b \in {0} \cup {NextWorkingMinute(c, BaselineEarliestStart(c, t)) :
                       t \in DOMAIN c.on_dock_dates},
     k \in 0..MaxSlot}

FirstPartDurations(c, t) ==
  {MinPartDuration + k * GridStep : k \in 0..MaxSlot}
    \cap (MinPartDuration..(Tasks(c)[t].duration - MinPartDuration))

\* assignments that satisfy everything but the resource constraints
BaselineTimeFeasible ==
  [c \in Catalogs |->
     {y : y \in {b \in [start : [BaselineKeys(c) -> BaselineStarts(c)],
             duration1 : [{t \in TaskIds(c) : IsSplittable(c, t)} -> 
                           UNION {FirstPartDurations(c, t) : t \in {x \in TaskIds(c) : IsSplittable(c, x)}}]] :
        /\ TaskVariablesOK(c, b)
        /\ BaselinePrecedenceOK(c, b)
        /\ BaselineLatePartOK(c, b)}}]

\* _extract_solution
BaselineSchedule(c, b) ==
  [k \in BaselineKeys(c) |->
     Entry(start_date + b.start[k], start_date + PartEnd(c, b, k),
           PartDuration(c, b, k), Tasks(c)[k[1]].team, Tasks(c)[k[1]], None,
           IsSplittable(c, k[1]))]

\* priority_data of generate_global_priority_list: the slack is looked up
\* under the id without its part suffix
BaselinePriorityList(c, sched) ==
  LET ord == ScheduleOrder(c.task_order, sched)
  IN  SortPriority([i \in DOMAIN ord |->
        PriorityRecord(ord[i], sched[ord[i]].start_time,
                       calculate_slack_time(c, sched, Key(ord[i][1]), ord[i][1]))], TRUE)

(* ------------------- metrics.py: calculate_makespan -------------------- *)

\* the calendar day of a wall-clock instant
DateOf(x) == x \div MinutesPerCalendarDay

calculate_makespan(c, sched) ==
  IF DOMAIN sched = {} THEN 0
  ELSE IF Cardinality(DOMAIN sched) < Cardinality(TaskIds(c)) THEN MakespanSentinel
  ELSE LET start_time == Min({sched[k].start_time : k \in DOMAIN sched})
           end_time == Max({sched[k].end_time : k \in DOMAIN sched})
       IN  Cardinality({d \in DateOf(start_time)..DateOf(end_time) :
             \E product \in DOMAIN c.delivery_dates : is_working_day(c, d, product)})

(* --------------- validation.py: check_resource_conflicts --------------- *)

\* order holds the schedule's keys as the entries were written.  Every
\* entry has the key 'team_skill', so schedule.get('team_skill', ...) never
\* falls back to 'team'; entries whose team_skill is empty are left out.
check_resource_conflicts(order, sched, mech, qual, cust) ==
  LET teams == {sched[k].team_skill : k \in DOMAIN sched} \ {None}
      capacity(team) ==
        IF Get(mech, team, 0) # 0 THEN Get(mech, team, 0)
        ELSE IF Get(qual, team, 0) # 0 THEN Get(qual, team, 0)
        ELSE Get(cust, team, 0)
      events(team) ==
        UNION {{[time |-> sched[order[i]].start_time,
                 delta |-> sched[order[i]].mechanics_required,
                 event_type |-> "start", task |-> order[i], pos |-> 2 * i - 1],
                [time |-> sched[order[i]].end_time,
                 delta |-> 0 - sched[order[i]].mechanics_required,
                 event_type |-> "end", task |-> order[i], pos |-> 2 * i]} :
               i \in {j \in DOMAIN order : sched[order[j]].team_skill = team}}
      \* events.sort(key=lambda x: (x[0], x[1])), a stable sort
      sorts_before(a, b) ==
        \/ a.time < b.time
        \/ a.time = b.time /\ a.delta < b.delta
        \/ a.time = b.time /\ a.delta = b.delta /\ a.pos <= b.pos
      current_usage(team, e) ==
        LET seen == {x \in events(team) : sorts_before(x, e)}
        IN  SumOver(seen, [x \in seen |-> x.delta])
  IN  UNION {{[team |-> team, time |-> e.time, usage |-> current_usage(team, e),
               capacity |-> capacity(team), task |-> e.task] :
                e \in {x \in events(team) :
                         x.event_type = "start" /\ current_usage(team, x) > capacity(team)}} :
             team \in teams}

(* ------------- what a successful run writes --------------------------- *)

Written(schedule, priority_data) ==
  [task_schedule |-> schedule, global_priority_list |-> priority_data]

\* the entries and the priority list of each solution, per data set
BaselineWritten ==
  [c \in Catalogs |-> [b \in BaselineTimeFeasible[c] |->
     Written(BaselineSchedule(c, b), BaselinePriorityList(c, BaselineSchedule(c, b)))]]

Scenario1Written ==
  [c \in Catalogs |-> [s \in Scenario1Solutions[c] |->
     Written(ScenarioSchedule(c, s), Scenario1PriorityList(c, ScenarioSchedule(c, s)))]]

Scenario3Written ==
  [c \in Catalogs |-> [s \in ScenarioTimeFeasible[c] |->
     Written(ScenarioSchedule(c, s), FlatPriorityList(c, ScenarioSchedule(c, s)))]]

WhatIfWritten ==
  [c \in Catalogs |->
     [s \in UNION {WhatIfSolutions[c][p] : p \in WhatIfProducts(c)} |->
        Written(WhatIfSchedule(c, s), FlatPriorityList(c, WhatIfSchedule(c, s)))]]

(* ----------------------------- the state ------------------------------- *)

VARIABLES
  catalog,                     \* the data load_data_from_csv loaded
  team_capacity, quality_team_capacity, customer_team_capacity,
  task_schedule,
  global_priority_list,
  dynamic_constraints_cache,   \* [built, edges]
  what_if_scheduler,           \* the copy the what-if scenario returned
  pc,                          \* position of the caller
  last_call,                   \* the entry point that returned last
  solver_status,               \* status of its solve
  result,                      \* kind of value it returned
  scenario_results,            \* app.scenario_results, by scenario id
  tasks_with_taskId,           \* the ids whose dict in scheduler.tasks has the key 'taskId'
  mechanic_assignments,        \* app.mechanic_assignments, by scenario id and mechanic id
  schedule_tasks_locals        \* the local variables of a running schedule_tasks

vars == <<catalog, team_capacity, quality_team_capacity, customer_team_capacity,
          task_schedule, global_priority_list, dynamic_constraints_cache,
          what_if_scheduler, pc, last_call, solver_status, result,
          scenario_results, tasks_with_taskId, mechanic_assignments,
          schedule_tasks_locals>>

\* what the Flask app holds besides the scheduler's own fields
app_vars == <<scenario_results, tasks_with_taskId, mechanic_assignments>>

EmptyMap == <<>>

\* d.update(e) for two dicts, and {**d, **e}
Updated(d, e) == [k \in (DOMAIN d) \cup (DOMAIN e) |-> IF k \in DOMAIN e THEN e[k] ELSE d[k]]
CacheNone == [built |-> FALSE, edges |-> <<>>]
CacheOf(c) == [built |-> TRUE, edges |-> DynamicConstraints[c]]

\* _original_team_capacity, _original_quality_capacity and
\* _original_customer_team_capacity, captured while loading
original_team_capacity(c) == c.team_capacity
original_quality_capacity(c) == c.quality_team_capacity
original_customer_team_capacity(c) == c.customer_team_capacity

\* no schedule_tasks is running
NoLocals ==
  [ready_tasks |-> {}, task_retry_counts |-> EmptyMap, failed_tasks |-> {},
   scheduled_count |-> 0, iteration_count |-> 0, now |-> 0, popped |-> None]

NoScheduler ==
  [present |-> FALSE, task_schedule |-> EmptyMap, global_priority_list |-> <<>>,
   team_capacity |-> EmptyMap, quality_team_capacity |-> EmptyMap,
   customer_team_capacity |-> EmptyMap]

\* ProductionScheduler.__init__ followed by load_data_from_csv
Init ==
  /\ catalog \in Catalogs
  /\ team_capacity = original_team_capacity(catalog)
  /\ quality_team_capacity = original_quality_capacity(catalog)
  /\ customer_team_capacity = original_customer_team_capacity(catalog)
  /\ task_schedule = EmptyMap
  /\ global_priority_list = <<>>
  /\ dynamic_constraints_cache = CacheNone
  /\ what_if_scheduler = NoScheduler
  /\ pc = "idle"
  /\ last_call = "load"
  /\ solver_status = "NOT_RUN"
  /\ result = "None"
  /\ scenario_results = EmptyMap
  /\ tasks_with_taskId = {}
  /\ mechanic_assignments = EmptyMap
  /\ schedule_tasks_locals = NoLocals

NoOnDockDates == DOMAIN catalog.on_dock_dates = {}

\* a scenario that returns None before it builds its model
EarlyReturn(call) ==
  /\ NoOnDockDates
  /\ last_call' = call
  /\ solver_status' = "NOT_RUN"
  /\ result' = "None"
  /\ UNCHANGED <<catalog, team_capacity, quality_team_capacity, customer_team_capacity,
                 task_schedule, global_priority_list, dynamic_constraints_cache,
                 what_if_scheduler>>

\* the statuses of a solve that returns no solution: the time limit may
\* always run out; the model is reported infeasible only if it is
FailStatus(solutions) == IF solutions = {} THEN {"INFEASIBLE", "UNKNOWN"} ELSE {"UNKNOWN"}

(* ---------------- main.py: generate_global_priority_list --------------- *)

BaselineSolutions ==
  {b \in BaselineTimeFeasible[catalog] :
     BaselineCapacityOK(catalog, b,
       MergedCapacities(team_capacity, quality_team_capacity, customer_team_capacity))}

\* CpSatScheduler.solve returns a schedule
BaselineSuccess ==
  /\ \E b \in BaselineSolutions :
       /\ task_schedule' = BaselineWritten[catalog][b].task_schedule
       /\ global_priority_list' = BaselineWritten[catalog][b].global_priority_list
  /\ solver_status' = "FEASIBLE"

\* solve returns None; the schedule is left empty
BaselineFailure ==
  /\ task_schedule' = EmptyMap
  /\ global_priority_list' = <<>>
  /\ solver_status' \in FailStatus(BaselineSolutions)

generate_global_priority_list ==
  /\ BaselineSuccess \/ BaselineFailure
  /\ dynamic_constraints_cache' = CacheOf(catalog)
  /\ last_call' = "baseline"
  /\ result' = "priority_data"
  /\ UNCHANGED <<catalog, team_capacity, quality_team_capacity, customer_team_capacity,
                 what_if_scheduler>>

(* ---------------- scenarios.py: scenario_1_csv_headcount --------------- *)

\* the solver returns a solution
Scenario1Success ==
  /\ ~NoOnDockDates
  /\ \E s \in Scenario1Solutions[catalog] :
       /\ task_schedule' = Scenario1Written[catalog][s].task_schedule
       /\ global_priority_list' = Scenario1Written[catalog][s].global_priority_list
  /\ team_capacity' = original_team_capacity(catalog)
  /\ quality_team_capacity' = original_quality_capacity(catalog)
  /\ customer_team_capacity' = original_customer_team_capacity(catalog)
  /\ dynamic_constraints_cache' = CacheOf(catalog)
  /\ last_call' = "scenario_1"
  /\ solver_status' = "FEASIBLE"
  /\ result' = "SUCCESS"
  /\ UNCHANGED <<catalog, what_if_scheduler>>

\* the solver ends without a solution
Scenario1Failure ==
  /\ ~NoOnDockDates
  /\ dynamic_constraints_cache' = CacheOf(catalog)
  /\ last_call' = "scenario_1"
  /\ solver_status' \in FailStatus(Scenario1Solutions[catalog])
  /\ result' = "FAILED"
  /\ UNCHANGED <<catalog, team_capacity, quality_team_capacity, customer_team_capacity,
                 task_schedule, global_priority_list, what_if_scheduler>>

scenario_1_csv_headcount ==
  \/ EarlyReturn("scenario_1")
  \/ Scenario1Success
  \/ Scenario1Failure

(* ---------------- scenarios.py: scenario_3_optimal_schedule ------------ *)

mechanic_skill_teams == {team \in DOMAIN team_capacity : HasSkillCode(team)}

all_resource_teams ==
  mechanic_skill_teams \cup (DOMAIN quality_team_capacity)
    \cup (DOMAIN customer_team_capacity)

\* what the solver may return: starts and one capacity per resource team
Scenario3Solutions ==
  {o \in [s : ScenarioTimeFeasible[catalog],
          capacity : CapacityChoices(catalog, all_resource_teams)] :
     Scenario3CapacityOK(catalog, o.s, all_resource_teams, mechanic_skill_teams, o.capacity)}

\* the three maps after they are cleared and the optimized values written
OptimizedTeamCapacity(c, teams, capacity) ==
  [team \in {t \in teams : t \in DOMAIN original_team_capacity(c)} |-> capacity[team]]

OptimizedQualityCapacity(c, teams, capacity) ==
  [team \in {t \in teams : /\ t \notin DOMAIN original_team_capacity(c)
                           /\ t \in DOMAIN original_quality_capacity(c)} |-> capacity[team]]

OptimizedCustomerCapacity(c, teams, capacity) ==
  [team \in {t \in teams : /\ t \notin DOMAIN original_team_capacity(c)
                           /\ t \notin DOMAIN original_quality_capacity(c)
                           /\ t \in DOMAIN original_customer_team_capacity(c)} |-> capacity[team]]

Scenario3Success ==
  /\ ~NoOnDockDates
  /\ \E o \in Scenario3Solutions :
       /\ task_schedule' = Scenario3Written[catalog][o.s].task_schedule
       /\ global_priority_list' = Scenario3Written[catalog][o.s].global_priority_list
       /\ team_capacity' = OptimizedTeamCapacity(catalog, all_resource_teams, o.capacity)
       /\ quality_team_capacity' = OptimizedQualityCapacity(catalog, all_resource_teams, o.capacity)
       /\ customer_team_capacity' = OptimizedCustomerCapacity(catalog, all_resource_teams, o.capacity)
  /\ dynamic_constraints_cache' = CacheOf(catalog)
  /\ last_call' = "scenario_3"
  /\ solver_status' = "FEASIBLE"
  /\ result' = "SUCCESS"
  /\ UNCHANGED <<catalog, what_if_scheduler>>

Scenario3Failure ==
  /\ ~NoOnDockDates
  /\ dynamic_constraints_cache' = CacheOf(catalog)
  /\ last_call' = "scenario_3"
  /\ solver_status' \in FailStatus(Scenario3Solutions)
  /\ result' = "None"
  /\ UNCHANGED <<catalog, team_capacity, quality_team_capacity, customer_team_capacity,
                 task_schedule, global_priority_list, what_if_scheduler>>

scenario_3_optimal_schedule ==
  \/ EarlyReturn("scenario_3")
  \/ Scenario3Success
  \/ Scenario3Failure

(* ---------------- scenarios.py: run_what_if_scenario ------------------- *)

\* temp_scheduler: a copy with the originals and the what-if schedule
WhatIfCopy(c, s) ==
  [present |-> TRUE,
   task_schedule |-> WhatIfWritten[c][s].task_schedule,
   global_priority_list |-> WhatIfWritten[c][s].global_priority_list,
   team_capacity |-> original_team_capacity(c),
   quality_team_capacity |-> original_quality_capacity(c),
   customer_team_capacity |-> original_customer_team_capacity(c)]

WhatIfEarlyReturn ==
  /\ NoOnDockDates
  /\ what_if_scheduler' = NoScheduler
  /\ solver_status' = "NOT_RUN"
  /\ UNCHANGED dynamic_constraints_cache

WhatIfSuccess(prioritized_product) ==
  /\ ~NoOnDockDates
  /\ \E s \in WhatIfSolutions[catalog][prioritized_product] :
       what_if_scheduler' = WhatIfCopy(catalog, s)
  /\ solver_status' = "FEASIBLE"
  /\ dynamic_constraints_cache' = CacheOf(catalog)

WhatIfFailure(prioritized_product) ==
  /\ ~NoOnDockDates
  /\ what_if_scheduler' = NoScheduler
  /\ solver_status' \in FailStatus(WhatIfSolutions[catalog][prioritized_product])
  /\ dynamic_constraints_cache' = CacheOf(catalog)

\* a what-if run that writes its schedule and the original capacities into
\* the scheduler it is given, as the scenarios do
run_what_if_scenario_in_place(prioritized_product) ==
  /\ \/ /\ WhatIfEarlyReturn \/ WhatIfFailure(prioritized_product)
        /\ UNCHANGED <<team_capacity, quality_team_capacity, customer_team_capacity,
                       task_schedule, global_priority_list>>
     \/ /\ ~NoOnDockDates
        /\ \E s \in WhatIfSolutions[catalog][prioritized_product] :
             /\ what_if_scheduler' = WhatIfCopy(catalog, s)
             /\ task_schedule' = WhatIfWritten[catalog][s].task_schedule
             /\ global_priority_list' = WhatIfWritten[catalog][s].global_priority_list
        /\ team_capacity' = original_team_capacity(catalog)
        /\ quality_team_capacity' = original_quality_capacity(catalog)
        /\ customer_team_capacity' = original_customer_team_capacity(catalog)
        /\ solver_status' = "FEASIBLE"
        /\ dynamic_constraints_cache' = CacheOf(catalog)
  /\ last_call' = "what_if"
  /\ result' = IF what_if_scheduler'.present THEN "scheduler" ELSE "None"
  /\ UNCHANGED catalog

run_what_if_scenario(prioritized_product) ==
  /\ \/ WhatIfEarlyReturn
     \/ WhatIfSuccess(prioritized_product)
     \/ WhatIfFailure(prioritized_product)
  /\ last_call' = "what_if"
  /\ result' = IF what_if_scheduler'.present THEN "scheduler" ELSE "None"
  /\ UNCHANGED <<catalog, team_capacity, quality_team_capacity, customer_team_capacity,
                 task_schedule, global_priority_list>>

(* ---------------- blueprints/scenarios.py: POST run_what_if ------------ *)

\* the handler calls the scenario ...
run_what_if ==
  /\ pc = "idle"
  /\ \E product_to_prioritize \in WhatIfProducts(catalog) :
       run_what_if_scenario(product_to_prioritize)
  /\ pc' = "what_if"
  /\ UNCHANGED <<app_vars, schedule_tasks_locals>>

\* ... and answers; the copy and the call's outcome are dropped
run_what_if_respond ==
  /\ pc = "what_if"
  /\ what_if_scheduler' = NoScheduler
  /\ pc' = "idle"
  /\ last_call' = "none"
  /\ solver_status' = "NOT_RUN"
  /\ result' = "None"
  /\ UNCHANGED <<catalog, team_capacity, quality_team_capacity, customer_team_capacity,
                 task_schedule, global_priority_list, dynamic_constraints_cache>>
  /\ UNCHANGED <<app_vars, schedule_tasks_locals>>

(* ---------------- app.py: run_all_scenarios ---------------------------- *)

\* for team, capacity in original.items(): current[team] = capacity
RestoreCapacities(current, original) ==
  [team \in (DOMAIN current) \cup (DOMAIN original) |->
     IF team \in DOMAIN original THEN original[team] ELSE current[team]]

\* server_utils.export_scenario_with_capacities: the tasks in the order of
\* global_priority (the position in the priority list), each with the lists
\* of its predecessors and successors among the dynamic constraints.  An
\* isoformat() string stands as the instant it denotes: the strings have one
\* width, so they compare as the instants do.
export_scenario_with_capacities(c, sched, priority_list, mech, qual, cust, scenario_name) ==
  LET dynamic_dependencies == DynamicConstraints[c]
      predecessors_map(id) ==
        LET into == SelectSeq(dynamic_dependencies, LAMBDA e : e.Second = id)
        IN  [i \in DOMAIN into |-> into[i].First]
      successors_map(id) ==
        LET from == SelectSeq(dynamic_dependencies, LAMBDA e : e.First = id)
        IN  [i \in DOMAIN from |-> from[i].Second]
      listed == SelectSeq([i \in DOMAIN priority_list |-> i],
                          LAMBDA i : priority_list[i].task_instance_id \in DOMAIN sched)
      task(i) ==
        LET task_id == priority_list[i].task_instance_id
            original_task_id == task_id[1]
            schedule == sched[task_id]
        IN  [taskId |-> task_id, originalTaskId |-> original_task_id,
             team |-> schedule.team, teamSkill |-> schedule.team_skill,
             shift |-> schedule.shift,
             startTime |-> schedule.start_time, endTime |-> schedule.end_time,
             mechanics |-> schedule.mechanics_required,
             priority |-> i,
             dependencies |-> predecessors_map(original_task_id),
             dynamic_predecessors |-> predecessors_map(original_task_id),
             dynamic_successors |-> successors_map(original_task_id)]
  IN  [scenarioId |-> scenario_name,
       tasks |-> [j \in DOMAIN listed |-> task(listed[j])],
       teamCapacities |-> Updated(Updated(mech, qual), cust),
       makespan |-> ToString(calculate_makespan(c, sched))]

\* the placeholder stored when scenario 3 fails
FailedScenario3 ==
  [scenarioId |-> "scenario3", status |-> "FAILED", tasks |-> <<>>,
   teamCapacities |-> EmptyMap, makespan |-> "N/A"]

\* scenario_results[name] = export_scenario_with_capacities(scheduler, name):
\* the export builds the dynamic constraints, which fills the cache
RunAllExport(name, here, next) ==
  /\ pc = here
  /\ scenario_results' =
       Updated(scenario_results,
               [n \in {name} |->
                  IF name = "scenario3" /\ result # "SUCCESS" THEN FailedScenario3
                  ELSE export_scenario_with_capacities(catalog, task_schedule,
                         global_priority_list, team_capacity, quality_team_capacity,
                         customer_team_capacity, name)])
  /\ dynamic_constraints_cache' =
       IF name = "scenario3" /\ result # "SUCCESS" THEN dynamic_constraints_cache
       ELSE CacheOf(catalog)
  /\ pc' = next
  /\ UNCHANGED <<catalog, team_capacity, quality_team_capacity, customer_team_capacity,
                 task_schedule, global_priority_list, what_if_scheduler, last_call,
                 solver_status, result, tasks_with_taskId, mechanic_assignments,
                 schedule_tasks_locals>>

RunAllBaseline ==
  /\ pc = "idle" /\ last_call = "load"
  /\ generate_global_priority_list
  /\ pc' = "run_all_export_baseline"
  /\ UNCHANGED <<app_vars, schedule_tasks_locals>>

RunAllExportBaseline ==
  RunAllExport("baseline", "run_all_export_baseline", "run_all_scenario1")

RunAllScenario1 ==
  /\ pc = "run_all_scenario1"
  /\ scenario_1_csv_headcount
  /\ pc' = "run_all_export_scenario1"
  /\ UNCHANGED <<app_vars, schedule_tasks_locals>>

RunAllExportScenario1 ==
  RunAllExport("scenario1", "run_all_export_scenario1", "run_all_scenario3")

RunAllScenario3 ==
  /\ pc = "run_all_scenario3"
  /\ scenario_3_optimal_schedule
  /\ pc' = "run_all_export_scenario3"
  /\ UNCHANGED <<app_vars, schedule_tasks_locals>>

RunAllExportScenario3 ==
  RunAllExport("scenario3", "run_all_export_scenario3", "run_all_restore")

RunAllRestore ==
  /\ pc = "run_all_restore"
  /\ team_capacity' = RestoreCapacities(team_capacity, original_team_capacity(catalog))
  /\ quality_team_capacity' =
       RestoreCapacities(quality_team_capacity, original_quality_capacity(catalog))
  /\ pc' = "idle"
  /\ last_call' = "none"
  /\ solver_status' = "NOT_RUN"
  /\ result' = "None"
  /\ UNCHANGED <<catalog, customer_team_capacity, task_schedule, global_priority_list,
                 dynamic_constraints_cache, what_if_scheduler>>
  /\ UNCHANGED <<app_vars, schedule_tasks_locals>>

run_all_scenarios ==
  \/ RunAllBaseline
  \/ RunAllExportBaseline
  \/ RunAllScenario1
  \/ RunAllExportScenario1
  \/ RunAllScenario3
  \/ RunAllExportScenario3
  \/ RunAllRestore

(* ----------------------------- the system ------------------------------ *)

\* a caller of the scheduler's methods, outside run_all_scenarios
CallBaseline == pc = "idle" /\ generate_global_priority_list /\ pc' = "returned" /\ UNCHANGED <<app_vars, schedule_tasks_locals>>
CallScenario1 == pc = "idle" /\ scenario_1_csv_headcount /\ pc' = "returned" /\ UNCHANGED <<app_vars, schedule_tasks_locals>>
CallScenario3 == pc = "idle" /\ scenario_3_optimal_schedule /\ pc' = "returned" /\ UNCHANGED <<app_vars, schedule_tasks_locals>>

\* ProductionScheduler.calculate_makespan, called on the scheduler as it is
CallCalculateMakespan ==
  /\ pc = "idle"
  /\ pc' = "returned"
  /\ last_call' = "calculate_makespan"
  /\ solver_status' = "NOT_RUN"
  /\ result' = ToString(calculate_makespan(catalog, task_schedule))
  /\ UNCHANGED <<catalog, team_capacity, quality_team_capacity, customer_team_capacity,
                 task_schedule, global_priority_list, dynamic_constraints_cache,
                 what_if_scheduler>>
  /\ UNCHANGED <<app_vars, schedule_tasks_locals>>

\* validation.check_resource_conflicts, called on the scheduler as it is
CallCheckResourceConflicts ==
  /\ pc = "idle"
  /\ pc' = "returned"
  /\ last_call' = "check_resource_conflicts"
  /\ solver_status' = "NOT_RUN"
  /\ result' = IF check_resource_conflicts(ScheduleOrder(catalog.task_order, task_schedule),
                                           task_schedule, team_capacity,
                                           quality_team_capacity, customer_team_capacity) = {}
               THEN "no conflicts" ELSE "conflicts"
  /\ UNCHANGED <<catalog, team_capacity, quality_team_capacity, customer_team_capacity,
                 task_schedule, global_priority_list, dynamic_constraints_cache,
                 what_if_scheduler>>
  /\ UNCHANGED <<app_vars, schedule_tasks_locals>>

\* the caller is done with what the call returned
Return ==
  /\ pc = "returned"
  /\ pc' = "idle"
  /\ last_call' = "none"
  /\ solver_status' = "NOT_RUN"
  /\ result' = "None"
  /\ UNCHANGED <<catalog, team_capacity, quality_team_capacity, customer_team_capacity,
                 task_schedule, global_priority_list, dynamic_constraints_cache,
                 what_if_scheduler>>
  /\ UNCHANGED <<app_vars, schedule_tasks_locals>>

Next ==
  \/ CallBaseline
  \/ CallScenario1
  \/ CallScenario3
  \/ CallCalculateMakespan
  \/ CallCheckResourceConflicts
  \/ Return
  \/ run_what_if
  \/ run_what_if_respond

Spec == Init /\ [][Next]_vars

(* ------------- the Flask app: initialization and its endpoints --------- *)

\* list.sort(key=lambda x: x['startTime']): stable, ascending
RECURSIVE SortByStartTime(_)
SortByStartTime(seq) ==
  IF seq = <<>> THEN <<>>
  ELSE LET rest == SortByStartTime(SubSeq(seq, 1, Len(seq) - 1))
           x == seq[Len(seq)]
           n == Cardinality({i \in DOMAIN rest : rest[i].startTime <= x.startTime})
       IN  SubSeq(rest, 1, n) \o <<x>> \o SubSeq(rest, n + 1, Len(rest))

\* the scenario ids of the requests: the three stored ones and one that is not
ScenarioIds == {"baseline", "scenario1", "scenario3", "scenario2"}

\* the team names of the requests
TeamNames == {"all", "Mechanic Team 1"}

\* the shifts of the requests
Shifts == {"all", "1st"}

\* the task ids of the requests: every instance id, its first part, and an
\* id no task has
RequestedTaskIds(c) ==
  {<<t, part>> : t \in TaskIds(c) \cup {"P9_9"}, part \in {0, 1}}

\* the app answers requests once initialize_scheduler_with_context is done
Serving == pc = "idle" /\ last_call # "load"

\* what a GET leaves as it is, whatever it does to the stored results
Answered(endpoint, status) ==
  /\ pc' = "idle"
  /\ last_call' = endpoint
  /\ result' = status
  /\ UNCHANGED <<catalog, team_capacity, quality_team_capacity, customer_team_capacity,
                 task_schedule, global_priority_list, what_if_scheduler, solver_status,
                 schedule_tasks_locals>>

\* GET /scenario/<scenario_id>: a shallow copy gets the dependency maps
get_scenario_data ==
  /\ Serving
  /\ \E scenario_id \in ScenarioIds :
       IF scenario_id \notin DOMAIN scenario_results
       THEN Answered("get_scenario_data", "404") /\ UNCHANGED dynamic_constraints_cache
       ELSE Answered("get_scenario_data", "200")
            /\ dynamic_constraints_cache' = CacheOf(catalog)
  /\ UNCHANGED <<app_vars, schedule_tasks_locals>>

\* GET /scenario/<scenario_id>/summary
get_scenario_summary ==
  /\ Serving
  /\ \E scenario_id \in ScenarioIds :
       Answered("get_scenario_summary",
                IF scenario_id \in DOMAIN scenario_results THEN "200" ELSE "404")
  /\ UNCHANGED <<dynamic_constraints_cache, app_vars>>

\* GET /team/<team_name>/tasks: with no filter, tasks is the stored list
\* itself and tasks.sort sorts it in place
get_team_tasks ==
  /\ Serving
  /\ \E scenario \in ScenarioIds, team_name \in TeamNames, shift \in Shifts :
       IF scenario \notin DOMAIN scenario_results
       THEN Answered("get_team_tasks", "404") /\ UNCHANGED scenario_results
       ELSE /\ Answered("get_team_tasks", "200")
            /\ scenario_results' =
                 IF team_name = "all" /\ shift = "all"
                 THEN [scenario_results EXCEPT ![scenario].tasks = SortByStartTime(@)]
                 ELSE scenario_results
  /\ UNCHANGED <<dynamic_constraints_cache, tasks_with_taskId, mechanic_assignments>>

\* GET /task/<scenario_id>/<task_id>/chain: a task that is not in the stored
\* list is looked up in scheduler.tasks, and its dict gets the key 'taskId'
get_task_chain ==
  /\ Serving
  /\ \E scenario_id \in ScenarioIds, task_id \in RequestedTaskIds(catalog) :
       IF scenario_id \notin DOMAIN scenario_results
       THEN Answered("get_task_chain", "404") /\ UNCHANGED tasks_with_taskId
       ELSE LET scenario_data == scenario_results[scenario_id]
                task_map == {scenario_data.tasks[i].taskId : i \in DOMAIN scenario_data.tasks}
            IN  IF task_id \in task_map
                THEN Answered("get_task_chain", "200") /\ UNCHANGED tasks_with_taskId
                ELSE IF task_id[2] = 0 /\ task_id[1] \in TaskIds(catalog)
                THEN /\ Answered("get_task_chain", "200")
                     /\ tasks_with_taskId' = tasks_with_taskId \cup {task_id[1]}
                ELSE Answered("get_task_chain", "404") /\ UNCHANGED tasks_with_taskId
  /\ UNCHANGED <<dynamic_constraints_cache, scenario_results, mechanic_assignments>>

(* ------------- the Flask app: assigning tasks to mechanics ------------- *)

\* the team names of the data sets, as sorted(team_capacities.items())
\* orders them
TeamNamesInOrder ==
  <<"Customer Team 1", "Customer Team 2", "Mechanic Team 1",
    "Mechanic Team 1 (Skill 1)", "Mechanic Team 1 (Skill 2)", "Mechanic Team 2",
    "Mechanic Team 2 (Skill 1)", "Mechanic Team 2 (Skill 2)", "Quality Team ",
    "Quality Team 1", "Quality Team 2", "Team 1", "Team 1 (Skill 1)">>

\* 'Customer' in team, 'Quality' in team, 'Mechanic' in team
NamesCustomer(team) == team \in {"Customer Team 1", "Customer Team 2"}
NamesQuality(team) == team \in {"Quality Team ", "Quality Team 1", "Quality Team 2"}
NamesMechanic(team) ==
  team \in {"Mechanic Team 1", "Mechanic Team 1 (Skill 1)", "Mechanic Team 1 (Skill 2)",
            "Mechanic Team 2", "Mechanic Team 2 (Skill 1)", "Mechanic Team 2 (Skill 2)"}

\* the team filter of auto_assign_tasks, the same for teams and for tasks
MatchesTeamFilter(team_filter, team) ==
  \/ team_filter = "all"
  \/ team_filter = "all-mechanics" /\ NamesMechanic(team)
       /\ ~NamesQuality(team) /\ ~NamesCustomer(team)
  \/ team_filter = "all-quality" /\ NamesQuality(team)
  \/ team_filter = "all-customer" /\ NamesCustomer(team)
  \/ team_filter = team

\* available_mechanics: one mechanic per unit of capacity of the teams that
\* pass the filter, numbered from 1 across the teams in sorted order
AvailableMechanics(team_capacities, team_filter) ==
  LET teams == SelectSeq(TeamNamesInOrder,
                 LAMBDA t : t \in DOMAIN team_capacities /\ MatchesTeamFilter(team_filter, t))
      flat == Concat([i \in DOMAIN teams |-> [j \in 1..team_capacities[teams[i]] |-> teams[i]]])
      id_prefix(team) == IF NamesCustomer(team) THEN "cust"
                         ELSE IF NamesQuality(team) THEN "qual" ELSE "mech"
  IN  [mechanic_id \in DOMAIN flat |->
         [id |-> id_prefix(flat[mechanic_id]) \o "_" \o ToString(mechanic_id),
          team |-> flat[mechanic_id]]]

\* tasks_to_assign.sort(key=lambda x: (x['startTime'], x.get('priority', 999)))
RECURSIVE SortByStartTimeAndPriority(_)
SortByStartTimeAndPriority(seq) ==
  IF seq = <<>> THEN <<>>
  ELSE LET rest == SortByStartTimeAndPriority(SubSeq(seq, 1, Len(seq) - 1))
           x == seq[Len(seq)]
           n == Cardinality({i \in DOMAIN rest :
                  \/ rest[i].startTime < x.startTime
                  \/ rest[i].startTime = x.startTime /\ rest[i].priority <= x.priority})
       IN  SubSeq(rest, 1, n) \o <<x>> \o SubSeq(rest, n + 1, Len(rest))

\* tasks_to_assign[:100]
AssignLimit == 100

\* the loop over the tasks: busy_until[i] is {} for None and else holds the
\* end of the last task of mechanic i; stored is
\* mechanic_assignments[scenario_id], which every assignment appends to
RECURSIVE AssignTasks(_, _, _, _)
AssignTasks(tasks, available_mechanics, busy_until, stored) ==
  IF tasks = <<>> THEN stored
  ELSE LET task == Head(tasks)
           mechanics_needed == task.mechanics
           free_mechanics ==
             SelectSeq([i \in DOMAIN available_mechanics |-> i],
                       LAMBDA i : /\ available_mechanics[i].team = task.team
                                  /\ \A until \in busy_until[i] : until <= task.startTime)
           assigned_mechs ==
             IF Len(free_mechanics) >= mechanics_needed
             THEN SubSeq(free_mechanics, 1, mechanics_needed)
             ELSE free_mechanics
           assigned_ids == {available_mechanics[i].id : i \in Range(assigned_mechs)}
           record == [taskId |-> task.taskId, startTime |-> task.startTime,
                      endTime |-> task.endTime, team |-> task.team, shift |-> task.shift,
                      partial |-> Len(free_mechanics) < mechanics_needed]
       IN  AssignTasks(Tail(tasks), available_mechanics,
             [i \in DOMAIN busy_until |->
                IF i \in Range(assigned_mechs) THEN {task.endTime} ELSE busy_until[i]],
             [id \in DOMAIN stored \cup assigned_ids |->
                IF id \in assigned_ids THEN Append(Get(stored, id, <<>>), record)
                ELSE stored[id]])

\* the team filters of the requests
TeamFilters == {"all", "all-mechanics", "Mechanic Team 1"}

\* the longest stored list after which another POST /api/auto_assign is made
MaxStored == 2

\* POST /api/auto_assign
auto_assign_tasks ==
  /\ Serving
  /\ \A scenario \in DOMAIN mechanic_assignments :
       \A id \in DOMAIN mechanic_assignments[scenario] :
         Len(mechanic_assignments[scenario][id]) <= MaxStored
  /\ \E scenario_id \in ScenarioIds, team_filter \in TeamFilters :
       IF scenario_id \notin DOMAIN scenario_results
       THEN Answered("auto_assign_tasks", "404") /\ UNCHANGED mechanic_assignments
       ELSE LET scenario_data == scenario_results[scenario_id]
                available_mechanics ==
                  AvailableMechanics(scenario_data.teamCapacities, team_filter)
                tasks_to_assign ==
                  SortByStartTimeAndPriority(
                    SelectSeq(scenario_data.tasks,
                              LAMBDA task : MatchesTeamFilter(team_filter, task.team)))
            IN  /\ Answered("auto_assign_tasks", "200")
                /\ mechanic_assignments' =
                     Updated(mechanic_assignments,
                       [n \in {scenario_id} |->
                          AssignTasks(
                            SubSeq(tasks_to_assign, 1, Min({AssignLimit, Len(tasks_to_assign)})),
                            available_mechanics,
                            [i \in DOMAIN available_mechanics |-> {}],
                            Get(mechanic_assignments, scenario_id, EmptyMap))])
  /\ UNCHANGED <<dynamic_constraints_cache, scenario_results, tasks_with_taskId>>

\* the mechanic ids and the dates of the requests; no date is None
MechanicIds == {"mech_1", "mech_2", "mech_3", "qual_1"}
RequestedDates == {None, "2025-08-22"}

\* the conflicts get_mechanic_assigned_tasks finds in a sorted list
HasConflicts(tasks) ==
  \E i \in 1..(Len(tasks) - 1) : tasks[i].endTime > tasks[i + 1].startTime

\* GET /api/mechanic/<mechanic_id>/assigned_tasks: with no date, tasks is the
\* stored list itself and tasks.sort sorts it in place
get_mechanic_assigned_tasks ==
  /\ Serving
  /\ \E mechanic_id \in MechanicIds, scenario \in ScenarioIds, date \in RequestedDates :
       IF \/ scenario \notin DOMAIN mechanic_assignments
          \/ mechanic_id \notin DOMAIN Get(mechanic_assignments, scenario, EmptyMap)
       THEN /\ Answered("get_mechanic_assigned_tasks", "tasks: []")
            /\ UNCHANGED mechanic_assignments
       ELSE LET stored == mechanic_assignments[scenario][mechanic_id]
                tasks == SortByStartTime(
                           IF date = None THEN stored
                           ELSE SelectSeq(stored, LAMBDA t : DateOf(t.startTime) = 0))
            IN  /\ Answered("get_mechanic_assigned_tasks",
                            IF HasConflicts(tasks) THEN "hasConflicts: true"
                            ELSE "hasConflicts: false")
                /\ mechanic_assignments' =
                     IF date = None
                     THEN [mechanic_assignments EXCEPT ![scenario][mechanic_id] = tasks]
                     ELSE mechanic_assignments
  /\ UNCHANGED <<dynamic_constraints_cache, scenario_results, tasks_with_taskId>>


ServerNext ==
  \/ run_all_scenarios
  \/ get_scenario_data
  \/ get_scenario_summary
  \/ get_team_tasks
  \/ get_task_chain
  \/ run_what_if
  \/ run_what_if_respond

\* the data sets the app is started on
ServedCatalogs == {PlainCatalog, ChainCatalog, TwoProductCatalog, SequenceCatalog}

\* create_app: the scheduler is loaded and nothing is stored yet
ServerInit == catalog \in ServedCatalogs /\ Init

ServerSpec == ServerInit /\ [][ServerNext]_vars

\* the app with the endpoints of blueprints/assignments.py: the stored
\* scenario results are assigned to mechanics and the assignments are read
AssignmentNext ==
  \/ run_all_scenarios
  \/ auto_assign_tasks
  \/ get_mechanic_assigned_tasks

AssignmentSpec == ServerInit /\ [][AssignmentNext]_vars

(* --------- the dependency graph of any loaded relationship table ------- *)

LoadedInit ==
  /\ catalog \in LoadedCatalogs
  /\ team_capacity = original_team_capacity(catalog)
  /\ quality_team_capacity = original_quality_capacity(catalog)
  /\ customer_team_capacity = original_customer_team_capacity(catalog)
  /\ task_schedule = EmptyMap
  /\ global_priority_list = <<>>
  /\ dynamic_constraints_cache = CacheNone
  /\ what_if_scheduler = NoScheduler
  /\ pc = "idle"
  /\ last_call = "load"
  /\ solver_status = "NOT_RUN"
  /\ result = "None"
  /\ scenario_results = EmptyMap
  /\ tasks_with_taskId = {}
  /\ mechanic_assignments = EmptyMap
  /\ schedule_tasks_locals = NoLocals

\* ProductionScheduler.build_dynamic_dependencies()
CallBuildDynamicDependencies ==
  /\ pc = "idle"
  /\ dynamic_constraints_cache' =
       IF dynamic_constraints_cache.built THEN dynamic_constraints_cache
       ELSE [built |-> TRUE, edges |-> build_dynamic_dependencies(catalog)]
  /\ pc' = "returned"
  /\ last_call' = "build_dynamic_dependencies"
  /\ result' = "edges"
  /\ UNCHANGED <<catalog, team_capacity, quality_team_capacity, customer_team_capacity,
                 task_schedule, global_priority_list, what_if_scheduler, solver_status>>
  /\ UNCHANGED <<app_vars, schedule_tasks_locals>>

\* ProductionScheduler.validate_dag()
CallValidateDag ==
  /\ pc = "idle"
  /\ dynamic_constraints_cache' =
       IF dynamic_constraints_cache.built THEN dynamic_constraints_cache
       ELSE [built |-> TRUE, edges |-> build_dynamic_dependencies(catalog)]
  /\ pc' = "returned"
  /\ last_call' = "validate_dag"
  /\ result' = IF validate_dag(catalog) THEN "True" ELSE "False"
  /\ UNCHANGED <<catalog, team_capacity, quality_team_capacity, customer_team_capacity,
                 task_schedule, global_priority_list, what_if_scheduler, solver_status>>
  /\ UNCHANGED <<app_vars, schedule_tasks_locals>>

\* What load_data_from_csv leaves when it runs on a scheduler that holds
\* the data c, and the file alone would load as f: the baseline
\* relationships are assigned, the late-part and rework relationships are
\* appended, and every map is written key by key.
ReloadedCatalog(c, f) ==
  [c EXCEPT !.precedence_constraints = f.precedence_constraints,
            !.late_part_constraints = @ \o f.late_part_constraints,
            !.rework_constraints = @ \o f.rework_constraints,
            !.tasks = Updated(@, f.tasks),
            !.task_order = @ \o SelectSeq(f.task_order, LAMBDA t : t \notin DOMAIN c.tasks),
            !.quality_requirements = Updated(@, f.quality_requirements),
            !.customer_requirements = Updated(@, f.customer_requirements),
            !.task_instance_map = Updated(@, f.task_instance_map),
            !.late_part_tasks = @ \cup f.late_part_tasks,
            !.on_dock_dates = Updated(@, f.on_dock_dates),
            !.team_capacity = Updated(@, f.team_capacity),
            !.quality_team_capacity = Updated(@, f.quality_team_capacity),
            !.customer_team_capacity = Updated(@, f.customer_team_capacity)]

\* the file as it may be when it is read again: unchanged, emptied of its
\* relationships and inspections, or holding one relationship, a late part,
\* a rework and both inspections
FilesAtReload(c) ==
  {c, LoadedCatalog(<<>>, "none", "none", FALSE, FALSE, FALSE),
      LoadedCatalog(<<(<<"1", "2", "Finish <= Start">>)>>, "Relationship", "LP1", TRUE, TRUE, TRUE)}

\* a load that leaves the cache as it finds it
KeptCache(cache) == cache

\* scheduler._dynamic_constraints_cache = None
ReloadedCache(cache) == CacheNone

\* ProductionScheduler.load_data_from_csv() on the loaded scheduler, once
CallReload ==
  /\ pc = "idle"
  /\ catalog \in LoadedCatalogs
  /\ \E f \in FilesAtReload(catalog) :
       /\ catalog' = ReloadedCatalog(catalog, f)
       /\ team_capacity' = Updated(team_capacity, f.team_capacity)
       /\ quality_team_capacity' = Updated(quality_team_capacity, f.quality_team_capacity)
       /\ customer_team_capacity' = Updated(customer_team_capacity, f.customer_team_capacity)
  /\ dynamic_constraints_cache' = ReloadedCache(dynamic_constraints_cache)
  /\ pc' = "returned"
  /\ last_call' = "load"
  /\ result' = "None"
  /\ UNCHANGED <<task_schedule, global_priority_list, what_if_scheduler, solver_status>>
  /\ UNCHANGED <<app_vars, schedule_tasks_locals>>

(* ---------------- validation.py: find_dependency_cycles ---------------- *)

\* graph[First].add(Second) for the 'Finish <= Start' and 'Finish = Start'
\* edges, in the order of the dynamic constraints
CycleGraphEdges(dynamic_constraints) ==
  SelectSeq(dynamic_constraints,
            LAMBDA e : e.Relationship \in {"Finish <= Start", "Finish = Start"})

\* list(graph.keys()): the Firsts in the order they were inserted
GraphKeys(edges) ==
  LET first_at == SelectSeq([i \in DOMAIN edges |-> i],
                    LAMBDA i : \A j \in 1..(i - 1) : edges[j].First # edges[i].First)
  IN  [k \in DOMAIN first_at |-> edges[first_at[k]].First]

\* graph.get(node, [])
Neighbors(edges, node) == {edges[i].Second : i \in {j \in DOMAIN edges : edges[j].First = node}}

\* dfs(node, path): the states it may leave, one per order in which the
\* sets of neighbors are iterated.  found is its return value; raised says
\* path.index(neighbor) raised ValueError.
RECURSIVE dfs(_, _, _), dfs_neighbors(_, _, _, _)
dfs(edges, node, st) ==
  dfs_neighbors(edges, node, Neighbors(edges, node),
    [st EXCEPT !.visited = @ \cup {node}, !.rec_stack = @ \cup {node},
               !.path = Append(@, node)])

dfs_neighbors(edges, node, rest, st) ==
  IF rest = {}
  THEN {[st EXCEPT !.path = SubSeq(@, 1, Len(@) - 1), !.rec_stack = @ \ {node},
                   !.found = FALSE]}
  ELSE UNION {
         IF neighbor \notin st.visited
         THEN UNION {IF r.raised \/ r.found THEN {r}
                     ELSE dfs_neighbors(edges, node, rest \ {neighbor}, r) :
                       r \in dfs(edges, neighbor, st)}
         ELSE IF neighbor \in st.rec_stack
         THEN IF neighbor \in Range(st.path)
              THEN LET cycle_start == Min({i \in DOMAIN st.path : st.path[i] = neighbor})
                   IN  {[st EXCEPT !.cycles = Append(@, SubSeq(st.path, cycle_start, Len(st.path))
                                                          \o <<neighbor>>),
                                   !.found = TRUE]}
              ELSE {[st EXCEPT !.raised = TRUE]}
         ELSE dfs_neighbors(edges, node, rest \ {neighbor}, st) :
           neighbor \in rest}

\* for node in list(graph.keys()): if node not in visited: dfs(node, [])
RECURSIVE VisitKeys(_, _, _)
VisitKeys(edges, keys, st) ==
  IF keys = <<>> \/ st.raised THEN {st}
  ELSE IF Head(keys) \in st.visited THEN VisitKeys(edges, Tail(keys), st)
  ELSE UNION {VisitKeys(edges, Tail(keys), r) :
                r \in dfs(edges, Head(keys), [st EXCEPT !.path = <<>>])}

\* what find_dependency_cycles may do: return cycles, or raise
find_dependency_cycles(dynamic_constraints) ==
  LET edges == CycleGraphEdges(dynamic_constraints)
      ends == VisitKeys(edges, GraphKeys(edges),
                [visited |-> {}, rec_stack |-> {}, path |-> <<>>, cycles |-> <<>>,
                 raised |-> FALSE, found |-> FALSE])
  IN  {[raised |-> st.raised, cycles |-> IF st.raised THEN <<>> ELSE st.cycles] : st \in ends}

\* validation.find_dependency_cycles(scheduler)
CallFindDependencyCycles ==
  /\ pc = "idle"
  /\ \E dynamic_constraints \in {IF dynamic_constraints_cache.built
                                 THEN dynamic_constraints_cache.edges
                                 ELSE build_dynamic_dependencies(catalog)} :
       /\ dynamic_constraints_cache' = [built |-> TRUE, edges |-> dynamic_constraints]
       /\ result' \in find_dependency_cycles(dynamic_constraints)
  /\ pc' = "returned"
  /\ last_call' = "find_dependency_cycles"
  /\ UNCHANGED <<catalog, team_capacity, quality_team_capacity, customer_team_capacity,
                 task_schedule, global_priority_list, what_if_scheduler, solver_status>>
  /\ UNCHANGED <<app_vars, schedule_tasks_locals>>

DependencyNext ==
  \/ CallBuildDynamicDependencies
  \/ CallValidateDag
  \/ CallReload
  \/ CallFindDependencyCycles
  \/ Return

DependencySpec == LoadedInit /\ [][DependencyNext]_vars

(* --------- data_loader.py: the instances load_data_from_csv makes ------- *)
\* A file is a record of its sections, each a sequence of rows.  The
\* scheduler being loaded is a record of the maps the loader fills; a map
\* whose iteration order the loader uses is a sequence of <<key, value>>.

FoldLeft(op(_, _), base, rows) ==
  LET f[i \in 0..Len(rows)] == IF i = 0 THEN base ELSE op(f[i - 1], rows[i])
  IN  f[Len(rows)]

\* d[k] = v on a dict kept as a function, and on one kept in insertion order
Put(d, k, v) == [x \in (DOMAIN d) \cup {k} |-> IF x = k THEN v ELSE d[x]]
Keys(od) == [i \in DOMAIN od |-> od[i][1]]
Lookup(od, k, default) ==
  IF \E i \in DOMAIN od : od[i][1] = k
  THEN od[CHOOSE i \in DOMAIN od : od[i][1] = k][2] ELSE default
PutOrdered(od, k, v) ==
  IF \E i \in DOMAIN od : od[i][1] = k
  THEN [i \in DOMAIN od |-> IF od[i][1] = k THEN <<k, v>> ELSE od[i]]
  ELSE Append(od, <<k, v>>)

\* the team names of the files
BaseTeams == {"Mechanic Team 1", "Mechanic Team 2"}
SkillCodes == {"Skill 1", "Skill 2"}
\* f"{team} ({skill})"
TeamSkillName(team, skill) == team \o " (" \o skill \o ")"
\* team.split(' (')[0]
BaseTeamName(team) ==
  IF \E b \in BaseTeams, k \in SkillCodes : team = TeamSkillName(b, k)
  THEN CHOOSE b \in BaseTeams : \E k \in SkillCodes : team = TeamSkillName(b, k)
  ELSE team
\* re.search(r'\((.*?)\)', team_skill).group(1)
SkillOf(team_skill) ==
  IF \E b \in BaseTeams, k \in SkillCodes : team_skill = TeamSkillName(b, k)
  THEN CHOOSE k \in SkillCodes : \E b \in BaseTeams : team_skill = TeamSkillName(b, k)
  ELSE None
\* re.search(r'(\d+)', team).group(1)
TeamNumber(team) ==
  CASE BaseTeamName(team) = "Mechanic Team 1" -> "1"
    [] BaseTeamName(team) = "Mechanic Team 2" -> "2"
    [] OTHER -> None

NewScheduler ==
  [team_capacity |-> <<>>, quality_team_capacity |-> <<>>, customer_team_capacity |-> <<>>,
   baseline_task_data |-> <<>>, delivery_dates |-> <<>>, product_remaining_ranges |-> <<>>,
   tasks |-> <<>>, task_instance_map |-> <<>>,
   quality_requirements |-> <<>>, customer_requirements |-> <<>>,
   late_part_constraints |-> <<>>, rework_constraints |-> <<>>,
   dynamic_constraints_cache |-> None]

\* MECHANIC TEAM CAPACITY: then every base team not named by a row gets the
\* summed capacity of its rows
load_team_capacities_and_schedules(s, sections) ==
  LET rows == sections.mechanic_team_capacity
      named == FoldLeft(LAMBDA od, row : PutOrdered(od, row[1], row[2]), <<>>, rows)
      base_team_capacities ==
        FoldLeft(LAMBDA od, row :
                   PutOrdered(od, BaseTeamName(row[1]),
                              Lookup(od, BaseTeamName(row[1]), 0) + row[2]), <<>>, rows)
      with_base ==
        FoldLeft(LAMBDA od, kv :
                   IF \E i \in DOMAIN od : od[i][1] = kv[1] THEN od ELSE Append(od, kv),
                 named, base_team_capacities)
  IN  [s EXCEPT !.team_capacity = with_base,
                !.quality_team_capacity =
                   FoldLeft(LAMBDA od, row : PutOrdered(od, row[1], row[2]), <<>>,
                            sections.quality_team_capacity)]

\* CUSTOMER TEAM CAPACITY
load_customer_teams(s, sections) ==
  [s EXCEPT !.customer_team_capacity =
     FoldLeft(LAMBDA od, row : PutOrdered(od, row[1], row[2]), <<>>,
              sections.customer_team_capacity)]

\* TASK DURATION AND RESOURCE TABLE; a row's Skill_Code is None when the
\* table has no such column or the cell is empty
load_task_definitions(s, sections) ==
  [s EXCEPT !.baseline_task_data =
     FoldLeft(LAMBDA d, row :
                Put(d, row.Task,
                    [duration |-> row.Duration, team |-> row.Resource_Type,
                     skill |-> row.Skill_Code,
                     team_skill |-> IF row.Skill_Code # None
                                    THEN TeamSkillName(row.Resource_Type, row.Skill_Code)
                                    ELSE row.Resource_Type,
                     mechanics_required |-> 1, is_quality |-> FALSE, is_customer |-> FALSE,
                     task_type |-> "Production", product |-> None, primary_task |-> None]),
              <<>>, sections.task_table)]

\* f"{product}_{task_id}"
create_task_instance_id(product, task_id) == product \o "_" \o ToString(task_id)

\* PRODUCT LINE DELIVERY SCHEDULE and PRODUCT LINE JOBS
load_product_lines(s, sections) ==
  LET dated == [s EXCEPT !.delivery_dates = sections.delivery_schedule]
      instance(sch, product, task_id) ==
        IF task_id \in DOMAIN sch.baseline_task_data
        THEN [sch EXCEPT
                !.tasks = PutOrdered(@, create_task_instance_id(product, task_id),
                            [sch.baseline_task_data[task_id] EXCEPT !.product = product]),
                !.task_instance_map = Put(@, <<product, task_id>>,
                                          create_task_instance_id(product, task_id))]
        ELSE sch
      job(sch, row) ==
        FoldLeft(LAMBDA x, task_id : instance(x, row.Product_Line, task_id),
                 [sch EXCEPT !.product_remaining_ranges =
                    Put(@, row.Product_Line, <<row.Task_Start, row.Task_End>>)],
                 [i \in 1..(row.Task_End - row.Task_Start + 1) |-> row.Task_Start + i - 1])
  IN  FoldLeft(job, dated, sections.product_line_jobs)

\* the quality team with the number of the mechanic team, if it has a capacity
map_mechanic_to_quality_team(s, mechanic_team) ==
  IF mechanic_team = None \/ TeamNumber(mechanic_team) = None THEN None
  ELSE IF \E i \in DOMAIN s.quality_team_capacity :
            s.quality_team_capacity[i][1] = "Quality Team " \o TeamNumber(mechanic_team)
       THEN "Quality Team " \o TeamNumber(mechanic_team)
       ELSE None

\* the products whose remaining range holds the primary task and that have
\* an instance of it
InspectedProducts(s, primary_task_id) ==
  SelectSeq(Keys(s.delivery_dates),
            LAMBDA product :
              LET remaining == IF product \in DOMAIN s.product_remaining_ranges
                               THEN s.product_remaining_ranges[product] ELSE <<1, 100>>
              IN  /\ remaining[1] <= primary_task_id /\ primary_task_id <= remaining[2]
                  /\ <<product, primary_task_id>> \in DOMAIN s.task_instance_map)

\* QUALITY INSPECTION REQUIREMENTS
load_quality_inspections(s, sections) ==
  LET inspect(sch, row, product) ==
        LET primary_instance_id == sch.task_instance_map[<<product, row.Primary_Task>>]
            qi_instance_id == product \o "_QI_" \o ToString(row.Quality_Task)
        IN  [sch EXCEPT
               !.tasks = PutOrdered(@, qi_instance_id,
                  [duration |-> row.Duration,
                   team |-> map_mechanic_to_quality_team(sch,
                              Lookup(sch.tasks, primary_instance_id, [team |-> None]).team),
                   skill |-> None, team_skill |-> None,
                   mechanics_required |-> 1, is_quality |-> TRUE, is_customer |-> FALSE,
                   task_type |-> "Quality Inspection", product |-> product,
                   primary_task |-> primary_instance_id]),
               !.quality_requirements = Put(@, primary_instance_id, qi_instance_id)]
  IN  FoldLeft(LAMBDA sch, row :
                 FoldLeft(LAMBDA x, product : inspect(x, row, product), sch,
                          InspectedProducts(sch, row.Primary_Task)),
               s, sections.quality_inspection_requirements)

\* CUSTOMER INSPECTION REQUIREMENTS
load_customer_inspections(s, sections) ==
  LET inspect(sch, row, product) ==
        LET primary_instance_id == sch.task_instance_map[<<product, row.Primary_Task>>]
            cc_instance_id == product \o "_" \o row.Customer_Task
        IN  [sch EXCEPT
               !.tasks = PutOrdered(@, cc_instance_id,
                  [duration |-> row.Duration, team |-> "Customer Team 1",
                   skill |-> None, team_skill |-> "Customer Team 1",
                   mechanics_required |-> 1, is_quality |-> FALSE, is_customer |-> TRUE,
                   task_type |-> "Customer", product |-> product,
                   primary_task |-> primary_instance_id]),
               !.customer_requirements = Put(@, primary_instance_id, cc_instance_id)]
  IN  FoldLeft(LAMBDA sch, row :
                 FoldLeft(LAMBDA x, product : inspect(x, row, product), sch,
                          InspectedProducts(sch, row.Primary_Task)),
               s, sections.customer_inspection_requirements)

\* int(current_task) of a string of digits
ParseInt(id) == CHOOSE n \in 0..9 : ToString(n) = id

\* the first baseline instance met when following the late-part and rework
\* constraints forward from a task, breadth first; None when there is none.
\* to_check holds pairs <<task, product>>.
RECURSIVE TraceToBaseline(_, _, _)
TraceToBaseline(s, to_check, visited) ==
  IF to_check = <<>> THEN None
  ELSE
    LET current_task == Head(to_check)[1]
        current_product == Head(to_check)[2]
        with_instance ==
          IF ~IsDigit(current_task) THEN <<>>
          ELSE IF current_product # None
               THEN IF <<current_product, ParseInt(current_task)>> \in DOMAIN s.task_instance_map
                    THEN <<current_product>> ELSE <<>>
               ELSE SelectSeq(Keys(s.delivery_dates),
                      LAMBDA prod : <<prod, ParseInt(current_task)>> \in DOMAIN s.task_instance_map)
        next(constraints) ==
          [i \in DOMAIN SelectSeq(constraints, LAMBDA k : k.First = current_task) |->
             <<SelectSeq(constraints, LAMBDA k : k.First = current_task)[i].Second,
               SelectSeq(constraints, LAMBDA k : k.First = current_task)[i].Product_Line>>]
    IN  IF current_task \in visited THEN TraceToBaseline(s, Tail(to_check), visited)
        ELSE IF with_instance # <<>>
             THEN s.task_instance_map[<<with_instance[1], ParseInt(current_task)>>]
             ELSE TraceToBaseline(s,
                    Tail(to_check) \o next(s.late_part_constraints) \o next(s.rework_constraints),
                    visited \cup {current_task})

find_baseline_task_for_dependency(s, task_id, product_line) ==
  TraceToBaseline(s, <<(<<task_id, product_line>>)>>, {})

\* base_team, skill and team_skill of a late part or rework task
InheritedTeam(s, row, product) ==
  LET baseline_instance_id == find_baseline_task_for_dependency(s, row.Task, product)
      default == TeamSkillName(row.Resource_Type, "Skill 1")
      capacity_teams == Keys(s.team_capacity)
      of_base == SelectSeq(capacity_teams,
                   LAMBDA cap_team : /\ BaseTeamName(cap_team) = row.Resource_Type
                                     /\ cap_team # row.Resource_Type)
  IN  IF baseline_instance_id # None
      THEN [team |-> Lookup(s.tasks, baseline_instance_id, None).team,
            skill |-> Lookup(s.tasks, baseline_instance_id, None).skill,
            team_skill |-> Lookup(s.tasks, baseline_instance_id, None).team_skill]
      ELSE IF default \in Range(capacity_teams) \/ of_base = <<>>
           THEN [team |-> row.Resource_Type, skill |-> "Skill 1", team_skill |-> default]
           ELSE [team |-> row.Resource_Type, skill |-> SkillOf(of_base[1]),
                 team_skill |-> of_base[1]]

\* Product_Line of the first constraint that names the task and has one
FirstProductLine(constraints, task_id, also_second) ==
  LET naming == SelectSeq(constraints,
                  LAMBDA k : /\ k.Product_Line # None
                             /\ (k.First = task_id \/ (also_second /\ k.Second = task_id)))
  IN  IF naming = <<>> THEN None ELSE naming[1].Product_Line

\* the relationship tables, then LATE PARTS TASK DETAILS and REWORK TASK
\* DETAILS with the quality inspection of a rework task
load_late_parts_and_rework(s, sections) ==
  LET related == [s EXCEPT !.late_part_constraints = @ \o sections.late_parts_relationships,
                           !.rework_constraints = @ \o sections.rework_relationships]
      late_part(sch, row) ==
        LET product == FirstProductLine(sch.late_part_constraints, row.Task, FALSE)
            own == InheritedTeam(sch, row, product)
        IN  [sch EXCEPT !.tasks = PutOrdered(@, row.Task,
               [duration |-> row.Duration, team |-> own.team, skill |-> own.skill,
                team_skill |-> own.team_skill, mechanics_required |-> 1,
                is_quality |-> FALSE, is_customer |-> FALSE, task_type |-> "Late Part",
                product |-> product, primary_task |-> None])]
      rework(sch, row) ==
        LET product == FirstProductLine(sch.rework_constraints, row.Task, TRUE)
            own == InheritedTeam(sch, row, product)
            made == [sch EXCEPT !.tasks = PutOrdered(@, row.Task,
               [duration |-> row.Duration, team |-> own.team, skill |-> own.skill,
                team_skill |-> own.team_skill, mechanics_required |-> 1,
                is_quality |-> FALSE, is_customer |-> FALSE, task_type |-> "Rework",
                product |-> product, primary_task |-> None])]
        IN  IF ~row.Needs_QI THEN made
            ELSE [made EXCEPT
                    !.quality_requirements = Put(@, row.Task, "QI_" \o row.Task),
                    !.tasks = PutOrdered(@, "QI_" \o row.Task,
                      [duration |-> 30, team |-> map_mechanic_to_quality_team(sch, own.team),
                       skill |-> None,
                       team_skill |-> map_mechanic_to_quality_team(sch, own.team),
                       mechanics_required |-> 1, is_quality |-> TRUE, is_customer |-> FALSE,
                       task_type |-> "Quality Inspection", product |-> product,
                       primary_task |-> row.Task])]
  IN  FoldLeft(rework, FoldLeft(late_part, related, sections.late_parts_task_details),
               sections.rework_task_details)

\* a quality inspection without a team gets the quality team of its
\* primary's team, if there is one
validate_and_fix_quality_assignments(s) ==
  [s EXCEPT !.tasks =
     [i \in DOMAIN s.tasks |->
        LET task_info == s.tasks[i][2]
            primary_team ==
              IF \E j \in DOMAIN s.tasks : s.tasks[j][1] = task_info.primary_task
              THEN Lookup(s.tasks, task_info.primary_task, None).team ELSE None
        IN  IF task_info.is_quality /\ task_info.team = None
               /\ map_mechanic_to_quality_team(s, primary_team) # None
            THEN <<s.tasks[i][1],
                   [task_info EXCEPT !.team = map_mechanic_to_quality_team(s, primary_team)]>>
            ELSE s.tasks[i]]]

load_data_from_csv(s, sections) ==
  validate_and_fix_quality_assignments(
    load_late_parts_and_rework(
      load_customer_inspections(
        load_quality_inspections(
          load_product_lines(
            load_task_definitions(
              load_customer_teams(
                load_team_capacities_and_schedules(
                  [s EXCEPT !.dynamic_constraints_cache = None], sections), sections),
              sections), sections), sections), sections), sections))

(* ------------------------ the files that are loaded -------------------- *)

TaskRow(task, team, skill) ==
  [Task |-> task, Duration |-> 60, Resource_Type |-> team, Skill_Code |-> skill]

\* two products with tasks 1 and 2 on 'Mechanic Team 1 (Skill 1)', one team
\* of each kind, no inspections, late parts or rework
PlainFile ==
  [mechanic_team_capacity |-> <<(<<"Mechanic Team 1 (Skill 1)", 1>>)>>,
   quality_team_capacity |-> <<(<<"Quality Team 1", 1>>)>>,
   customer_team_capacity |-> <<(<<"Customer Team 1", 1>>)>>,
   task_table |-> <<TaskRow(1, "Mechanic Team 1", "Skill 1"),
                    TaskRow(2, "Mechanic Team 1", "Skill 1")>>,
   delivery_schedule |-> <<(<<"P1", 4 * MinutesPerCalendarDay>>),
                           (<<"P2", 5 * MinutesPerCalendarDay>>)>>,
   product_line_jobs |-> <<[Product_Line |-> "P1", Task_Start |-> 1, Task_End |-> 2],
                           [Product_Line |-> "P2", Task_Start |-> 2, Task_End |-> 2]>>,
   quality_inspection_requirements |-> <<>>,
   customer_inspection_requirements |-> <<>>,
   late_parts_relationships |-> <<>>,
   late_parts_task_details |-> <<>>,
   rework_relationships |-> <<>>,
   rework_task_details |-> <<>>]

ListsOf(rows) == UNION {[1..n -> rows] : n \in 0..MaxRows}

QualityRows ==
  {[Primary_Task |-> p, Quality_Task |-> q, Duration |-> 30] : p \in {1, 2}, q \in {101, 102}}
CustomerRows ==
  {[Primary_Task |-> p, Customer_Task |-> "CC_601", Duration |-> 30] : p \in {1, 2}}

\* files that differ in their inspection rows and in the quality and
\* customer teams that have a capacity
InspectionFiles ==
  {[PlainFile EXCEPT !.quality_inspection_requirements = q,
                     !.customer_inspection_requirements = k,
                     !.quality_team_capacity = qt,
                     !.customer_team_capacity = ct] :
     q \in ListsOf(QualityRows),
     k \in {<<>>} \cup {<<row>> : row \in CustomerRows},
     qt \in {<<(<<"Quality Team 1", 1>>)>>, <<(<<"Quality Team 2", 1>>)>>},
     ct \in {<<(<<"Customer Team 1", 1>>)>>, <<(<<"Customer Team 2", 1>>)>>}}

LateRelationshipRows ==
  {[First |-> first, Second |-> second, Relationship |-> "Finish <= Start",
    Product_Line |-> product] :
     first \in {"LP1", "LP2"}, second \in {"1", "LP2"}, product \in {None, "P1"}}

\* files that differ in the late-part relationships, in the rework of task
\* 2 and in the skills of 'Mechanic Team 1' and 'Mechanic Team 2' that have
\* a capacity; parts LP1 and LP2 are declared on 'Mechanic Team 2'
LatePartFiles ==
  {[PlainFile EXCEPT !.late_parts_relationships = late,
                     !.late_parts_task_details =
                        <<TaskRow("LP1", "Mechanic Team 2", None),
                          TaskRow("LP2", "Mechanic Team 2", None)>>,
                     !.rework_relationships = IF rework = "none" THEN <<>> ELSE
                        <<[First |-> "RW1", Second |-> "2", Relationship |-> "Finish <= Start",
                           Product_Line |-> IF rework = "P1" THEN "P1" ELSE None]>>,
                     !.rework_task_details = IF rework = "none" THEN <<>> ELSE
                        <<[TaskRow("RW1", "Mechanic Team 1", None) EXCEPT !.Duration = 60]
                            @@ [Needs_QI |-> TRUE]>>,
                     !.mechanic_team_capacity = mech] :
     late \in ListsOf(LateRelationshipRows),
     rework \in {"none", "P1", "any"},
     mech \in {<<(<<"Mechanic Team 1 (Skill 1)", 1>>)>>,
               <<(<<"Mechanic Team 1 (Skill 1)", 1>>), (<<"Mechanic Team 2 (Skill 2)", 1>>),
                 (<<"Mechanic Team 2 (Skill 1)", 1>>)>>,
               <<(<<"Mechanic Team 1 (Skill 1)", 1>>), (<<"Mechanic Team 2 (Skill 2)", 1>>)>>}}

Files == InspectionFiles \cup LatePartFiles

(* --------------------------- loading a file ----------------------------- *)

\* ProductionScheduler.__init__
CreatedInit ==
  /\ catalog \in {[sections |-> file, scheduler |-> NewScheduler] : file \in Files}
  /\ team_capacity = EmptyMap
  /\ quality_team_capacity = EmptyMap
  /\ customer_team_capacity = EmptyMap
  /\ task_schedule = EmptyMap
  /\ global_priority_list = <<>>
  /\ dynamic_constraints_cache = CacheNone
  /\ what_if_scheduler = NoScheduler
  /\ pc = "created"
  /\ last_call = "init"
  /\ solver_status = "NOT_RUN"
  /\ result = "None"
  /\ scenario_results = EmptyMap
  /\ tasks_with_taskId = {}
  /\ mechanic_assignments = EmptyMap
  /\ schedule_tasks_locals = NoLocals

\* ProductionScheduler.load_data_from_csv on the new scheduler
CallLoadDataFromCsv ==
  /\ pc = "created"
  /\ catalog' = [catalog EXCEPT !.scheduler = load_data_from_csv(@, catalog.sections)]
  /\ pc' = "loaded"
  /\ last_call' = "load"
  /\ UNCHANGED <<team_capacity, quality_team_capacity, customer_team_capacity,
                 task_schedule, global_priority_list, dynamic_constraints_cache,
                 what_if_scheduler, solver_status, result>>
  /\ UNCHANGED <<app_vars, schedule_tasks_locals>>

LoaderNext == CallLoadDataFromCsv

LoaderSpec == CreatedInit /\ [][LoaderNext]_vars

(* ---------------- algorithms.py: schedule_tasks ------------------------ *)
\* Instants are minutes since 2025-08-22 00:00.  A priority is ten times the
\* number the code computes, so that the 0.1 added at a retry is 1.

MaxDaysAhead == 30
MaxRetries == 3
\* datetime(2031, 1, 1): scheduled_start.year > 2030
FarFuture == 1958 * MinutesPerCalendarDay

\* scheduler.shift_hours as _load_shift_hours leaves it for a file with no
\* SHIFT WORKING HOURS table; parse_shift_time('6:00') is 6 h 0 min
shift_hours ==
  [shift \in {"1st", "2nd", "3rd"} |->
     CASE shift = "1st" -> [start |-> 6 * 60, end |-> 14 * 60 + 30]
       [] shift = "2nd" -> [start |-> 14 * 60 + 30, end |-> 23 * 60]
       [] OTHER -> [start |-> 23 * 60, end |-> 6 * 60 + 30]]

\* the shifts of a team: customer_team_shifts.get(team, ['1st']),
\* quality_team_shifts.get(team, ['1st']) and, for a mechanic team,
\* team_shifts.get(base_team, team_shifts.get(team, ['1st'])); the data sets
\* have a working calendar for mechanic teams only
ShiftsOf(c, team, is_quality, is_customer) ==
  IF is_customer \/ is_quality THEN <<"1st">>
  ELSE Get(c.team_shifts, BaseTeamName(team), Get(c.team_shifts, team, <<"1st">>))

\* the ids of the data sets in the order Python compares strings
IdsInOrder == <<"LP1", "P1_1", "P1_2", "P1_9", "P1_QI_101", "P2_1", "RW1">>
IdRank(id) == CHOOSE i \in DOMAIN IdsInOrder : IdsInOrder[i] = id

\* (priority, id) tuples compare by priority, then by id
TupleLess(a, b) == a[1] < b[1] \/ (a[1] = b[1] /\ IdRank(a[2]) < IdRank(b[2]))

\* heapq.heappop: the least tuple
HeapTop(heap) == CHOOSE a \in heap : \A b \in heap \ {a} : TupleLess(a, b)

\* re.search(r'(\d+)', team).group(1), for the team names of the data sets
NumberInTeam(team) ==
  CASE team \in {"Quality Team 1", "Customer Team 1"} -> "1"
    [] team = "Quality Team 2" -> "2"
    [] OTHER -> TeamNumber(team)

\* data_loader.map_mechanic_to_quality_team on the scheduler's capacity map
QualityTeamOf(qual, mechanic_team) ==
  IF mechanic_team = None \/ NumberInTeam(mechanic_team) = None THEN None
  ELSE IF ("Quality Team " \o NumberInTeam(mechanic_team)) \in DOMAIN qual
       THEN "Quality Team " \o NumberInTeam(mechanic_team)
       ELSE None

\* calculate_critical_path_length: the task's duration and the longest path
\* of a successor
RECURSIVE calculate_critical_path_length(_, _, _)
calculate_critical_path_length(c, dynamic_constraints, task) ==
  LET successors == {dynamic_constraints[i].Second :
                       i \in {j \in DOMAIN dynamic_constraints :
                                /\ dynamic_constraints[j].First = task
                                /\ dynamic_constraints[j].Second \in TaskIds(c)}}
      paths == {calculate_critical_path_length(c, dynamic_constraints, successor) :
                  successor \in successors}
  IN  Tasks(c)[task].duration + (IF paths = {} THEN 0 ELSE Max(paths))

\* timedelta.days of (d - now)
DaysUntil(d, now) == (d - now) \div MinutesPerCalendarDay

\* calculate_task_priority, times ten
\* (dynamic_constraints is what scheduler.build_dynamic_dependencies() returns)
RECURSIVE calculate_task_priority(_, _, _, _, _)
calculate_task_priority(c, dynamic_constraints, sched, now, task_instance_id) ==
  LET task_info == Tasks(c)[task_instance_id]
      dependent_tasks == {dynamic_constraints[i].Second :
                            i \in {j \in DOMAIN dynamic_constraints :
                                     dynamic_constraints[j].First = task_instance_id}}
      dated == {dep \in dependent_tasks \cap TaskIds(c) :
                  /\ Tasks(c)[dep].product # None
                  /\ Tasks(c)[dep].product \in DOMAIN c.delivery_dates}
      days_to_delivery ==
        IF task_info.product # None /\ task_info.product \in DOMAIN c.delivery_dates
        THEN DaysUntil(c.delivery_dates[task_info.product], now) ELSE 999
  IN  IF task_instance_id \in c.late_part_tasks
      THEN IF task_instance_id \in DOMAIN c.on_dock_dates
           THEN -30000 + DaysUntil(c.on_dock_dates[task_instance_id], now) * 100
           ELSE -30000
      ELSE IF task_info.is_quality
      THEN IF task_info.primary_task # None /\ Key(task_info.primary_task) \in DOMAIN sched
           THEN calculate_task_priority(c, dynamic_constraints, sched, now,
                                        task_info.primary_task) - 10
           ELSE -20000
      ELSE IF task_info.task_type = "Rework"
      THEN IF dated # {}
           THEN Min({(100 - DaysUntil(c.delivery_dates[Tasks(c)[dep].product], now)) * 200 :
                       dep \in dated}) - 1000
           ELSE -5000
      ELSE (100 - days_to_delivery) * 200
             + (10000 - calculate_critical_path_length(c, dynamic_constraints,
                                                       task_instance_id)) * 50
             + 2000 - 2 * task_info.duration

\* get_earliest_start_for_late_part: 06:00 of the day the part is usable
get_earliest_start_for_late_part(c, task_instance_id) ==
  IF task_instance_id \notin DOMAIN c.on_dock_dates THEN start_date
  ELSE DateOf(c.on_dock_dates[task_instance_id]
                + late_part_delay_days * MinutesPerCalendarDay) * MinutesPerCalendarDay
         + OpeningMinute

\* the instant an incoming constraint allows, given the predecessor's entry
ConstraintTime(relationship, first_schedule, duration) ==
  CASE relationship \in {"Finish <= Start", "Finish = Start"} -> first_schedule.end_time
    [] relationship \in {"Start <= Start", "Start = Start"} -> first_schedule.start_time
    [] relationship = "Finish <= Finish" -> first_schedule.end_time - duration
    [] relationship = "Start <= Finish" -> first_schedule.start_time - duration
    [] OTHER -> first_schedule.end_time

\* earliest_start of schedule_tasks: the maximum over the predecessors that
\* have an entry, unless a 'Start = Start' predecessor has one: then the
\* start of the last such predecessor
EarliestStart(c, sched, incoming, task_instance_id) ==
  LET scheduled == SelectSeq(incoming, LAMBDA e : Key(e.First) \in DOMAIN sched)
      base == IF task_instance_id \in c.late_part_tasks
              THEN get_earliest_start_for_late_part(c, task_instance_id)
              ELSE start_date
      times == {ConstraintTime(scheduled[i].Relationship, sched[Key(scheduled[i].First)],
                               Tasks(c)[task_instance_id].duration) : i \in DOMAIN scheduled}
      same_start == SelectSeq(scheduled, LAMBDA e : e.Relationship = "Start = Start")
  IN  IF same_start # <<>>
      THEN sched[Key(same_start[Len(same_start)].First)].start_time
      ELSE Max(times \cup {base})

\* the next quarter of an hour
RoundUp15(x) == IF x % 15 = 0 THEN x ELSE ((x \div 15) + 1) * 15

\* the bounds of a shift on check_date
ShiftWindow(shift, check_date, days_ahead, current_time) ==
  IF shift = "3rd"
  THEN IF days_ahead = 0 /\ current_time % MinutesPerCalendarDay < 6 * 60
       THEN <<(check_date - 1) * MinutesPerCalendarDay + 23 * 60,
              check_date * MinutesPerCalendarDay + 6 * 60>>
       ELSE <<check_date * MinutesPerCalendarDay + 23 * 60,
              (check_date + 1) * MinutesPerCalendarDay + 6 * 60>>
  ELSE <<check_date * MinutesPerCalendarDay + shift_hours[shift].start,
         check_date * MinutesPerCalendarDay + shift_hours[shift].end>>

NoSlot == <<-1, None>>

\* the capacity check sees no entry
NoConflicts(sched, team, is_quality, is_customer, from, to) == 0

\* conflicts: the summed mechanics_required of the entries of the team that
\* overlap [from, to)
Conflicts(sched, team, is_quality, is_customer, from, to) ==
  LET same_team == {k \in DOMAIN sched :
                      /\ \/ sched[k].team_skill = team
                         \/ ~is_customer /\ ~is_quality /\ sched[k].team = team
                      /\ sched[k].start_time < to
                      /\ sched[k].end_time > from}
  IN  SumOver(same_team, [k \in same_team |-> sched[k].mechanics_required])

\* get_next_working_time_with_capacity: one start is tried per shift and
\* day, the shift's opening or current_time rounded up to a quarter
get_next_working_time_with_capacity(c, sched, mech, qual, cust, current_time, product_line, team, mechanics_needed, duration, is_quality, is_customer) ==
  LET capacity == IF is_customer THEN Get(cust, team, 0)
                  ELSE IF is_quality THEN Get(qual, team, 0)
                  ELSE Get(mech, team, 0)
      shifts == ShiftsOf(c, team, is_quality, is_customer)
      earliest_in_shift(try) ==
        LET check_date == DateOf(current_time) + try[1]
            window == ShiftWindow(shifts[try[2]], check_date, try[1], current_time)
        IN  RoundUp15(IF window[1] > current_time THEN window[1] ELSE current_time)
      conflicts(from, to) == Conflicts(sched, team, is_quality, is_customer, from, to)
      fits(try) ==
        LET check_date == DateOf(current_time) + try[1]
            window == ShiftWindow(shifts[try[2]], check_date, try[1], current_time)
            from == earliest_in_shift(try)
        IN  /\ is_working_day(c, check_date, product_line)
            /\ window[2] > current_time
            /\ from + duration <= window[2]
            /\ capacity - conflicts(from, from + duration) >= mechanics_needed
      \* for days_ahead in range(max_days_ahead): for shift in shifts
      RECURSIVE first_fit(_)
      first_fit(try) ==
        IF try[1] >= MaxDaysAhead THEN NoSlot
        ELSE IF try[2] > Len(shifts) THEN first_fit(<<try[1] + 1, 1>>)
        ELSE IF fits(try) THEN <<earliest_in_shift(try), shifts[try[2]]>>
        ELSE first_fit(<<try[1], try[2] + 1>>)
  IN  IF capacity = 0 \/ mechanics_needed > capacity THEN NoSlot
      ELSE first_fit(<<0, 1>>)

(* ------------- the data sets schedule_tasks is run on ------------------- *)

\* TASK RELATIONSHIPS rows into task 9, under the header 'Relationship'
HeuristicRows ==
  {<<first, "9", stated>> :
     first \in {"1", "2"},
     stated \in {"Finish <= Start", "Finish = Start", "Start <= Start", "Start = Start"}}

HeuristicRowLists == UNION {[1..n -> HeuristicRows] : n \in 0..MaxRows}

HeuristicTaskIds(has_qi) ==
  {"P1_1", "P1_2", "P1_9", "P2_1"} \cup (IF has_qi THEN {"P1_QI_101"} ELSE {})

\* task 1 takes d1 minutes in both products, task 2 takes d2
HeuristicTask(t, d1, d2) ==
  CASE t = "P1_1" -> MechTask(d1, "Mechanic Team 1", "Mechanic Team 1 (Skill 1)", "Production", "P1")
    [] t = "P2_1" -> MechTask(d1, "Mechanic Team 1", "Mechanic Team 1 (Skill 1)", "Production", "P2")
    [] t = "P1_2" -> MechTask(d2, "Mechanic Team 2", "Mechanic Team 2 (Skill 1)", "Production", "P1")
    [] t = "P1_9" -> MechTask(60, "Mechanic Team 1", "Mechanic Team 1 (Skill 2)", "Production", "P1")
    [] OTHER -> InspectionTask(30, "Quality Team 1", None, TRUE, "Quality Inspection", "P1", "P1_1")

\* Product P1 has tasks 1, 2 and 9, product P2 has task 1; P2 is due on day
\* 10 and P1 on the day given; task 1 of P1 may have a quality inspection.
HeuristicCatalog(rows, d1, d2, due, has_qi) ==
  [name |-> "heuristic",
   delivery_order |-> <<"P1", "P2">>,
   delivery_dates |-> [p \in {"P1", "P2"} |->
      IF p = "P1" THEN due * MinutesPerCalendarDay ELSE 10 * MinutesPerCalendarDay],
   holidays |-> [p \in {"P1", "P2"} |-> {}],
   task_order |-> SelectSeq(<<"P1_1", "P1_2", "P1_9", "P2_1", "P1_QI_101">>,
                    LAMBDA t : t \in HeuristicTaskIds(has_qi)),
   tasks |-> [t \in HeuristicTaskIds(has_qi) |-> HeuristicTask(t, d1, d2)],
   precedence_constraints |-> load_task_relationships(rows, "Relationship"),
   late_part_constraints |-> <<>>,
   rework_constraints |-> <<>>,
   quality_requirements |-> IF has_qi THEN [t \in {"P1_1"} |-> "P1_QI_101"] ELSE <<>>,
   customer_requirements |-> <<>>,
   task_instance_map |->
     [k \in {<<"P1", "1">>, <<"P1", "2">>, <<"P1", "9">>, <<"P2", "1">>} |->
        k[1] \o "_" \o k[2]],
   late_part_tasks |-> {},
   on_dock_dates |-> <<>>,
   team_capacity |-> [t \in {"Mechanic Team 1 (Skill 1)", "Mechanic Team 1 (Skill 2)",
                             "Mechanic Team 2 (Skill 1)"} |-> 1],
   quality_team_capacity |-> [t \in {"Quality Team 1"} |-> 1],
   customer_team_capacity |-> <<>>,
   team_shifts |-> <<>>]

\* the same data without a QUALITY TEAM CAPACITY table
WithoutQualityTeams(c) == [c EXCEPT !.quality_team_capacity = <<>>]

\* the same data with task 2 asking for two mechanics of a team of one
WithLargeCrew(c) == [c EXCEPT !.tasks["P1_2"].mechanics_required = 2]

\* the same data with 'Mechanic Team 2' on the 3rd shift and task 9 on it,
\* and task 2 a two-hour task of the team of task 1
WithThirdShift(c) ==
  [c EXCEPT !.team_shifts = [t \in {"Mechanic Team 2"} |-> <<"3rd">>],
            !.tasks["P1_9"].team = "Mechanic Team 2",
            !.tasks["P1_9"].team_skill = "Mechanic Team 2 (Skill 1)",
            !.tasks["P1_2"].team = "Mechanic Team 1",
            !.tasks["P1_2"].team_skill = "Mechanic Team 1 (Skill 1)",
            !.tasks["P1_2"].duration = 120]

\* rows into task 9 that bound its finish
FinishRows == {<<"1", "9", stated>> : stated \in {"Start <= Finish", "Finish <= Finish"}}

\* at most one row, hourly tasks
SmallCatalogs ==
  {HeuristicCatalog(rows, 60, 60, due, has_qi) :
     rows \in {<<>>} \cup {<<row>> : row \in HeuristicRows \cup FinishRows},
     due \in {9, 11}, has_qi \in BOOLEAN}

HeuristicCatalogs ==
  {HeuristicCatalog(rows, d1, d2, due, has_qi) :
     rows \in HeuristicRowLists, d1 \in {60, 120}, d2 \in {60, 120},
     due \in {9, 11}, has_qi \in BOOLEAN}
    \cup SmallCatalogs
    \cup {WithoutQualityTeams(c) : c \in SmallCatalogs}
    \cup {WithLargeCrew(c) : c \in SmallCatalogs}
    \cup {WithLargeCrew(WithoutQualityTeams(c)) : c \in SmallCatalogs}
    \cup {WithThirdShift(c) : c \in SmallCatalogs}

\* what datetime.now() may give while schedule_tasks runs
NowValues == {start_date, start_date + 3 * MinutesPerCalendarDay}

(* ---------------- schedule_tasks, one iteration at a time --------------- *)

HeuristicInit ==
  /\ catalog \in HeuristicCatalogs
  /\ team_capacity = original_team_capacity(catalog)
  /\ quality_team_capacity = original_quality_capacity(catalog)
  /\ customer_team_capacity = original_customer_team_capacity(catalog)
  /\ task_schedule = EmptyMap
  /\ global_priority_list = <<>>
  /\ dynamic_constraints_cache = CacheNone
  /\ what_if_scheduler = NoScheduler
  /\ pc = "idle"
  /\ last_call = "load"
  /\ solver_status = "NOT_RUN"
  /\ result = "None"
  /\ scenario_results = EmptyMap
  /\ tasks_with_taskId = {}
  /\ mechanic_assignments = EmptyMap
  /\ schedule_tasks_locals = NoLocals

\* the tasks pushed before the loop: those in no constraint, those with
\* outgoing constraints only, and those whose incoming constraints are all
\* of a kind that does not block
InitiallyReady(c, dynamic_constraints) ==
  LET incoming == {dynamic_constraints[i].Second : i \in DOMAIN dynamic_constraints}
      outgoing == {dynamic_constraints[i].First : i \in DOMAIN dynamic_constraints}
      blocked == {dynamic_constraints[i].Second :
                    i \in {j \in DOMAIN dynamic_constraints :
                             dynamic_constraints[j].Relationship \in
                               {"Finish <= Start", "Finish = Start", "Finish <= Finish"}}}
  IN  ((TaskIds(c) \ incoming) \ outgoing) \cup (outgoing \ incoming) \cup (incoming \ blocked)

\* schedule_tasks up to its loop
CallScheduleTasks ==
  /\ pc = "idle"
  /\ task_schedule' = EmptyMap
  /\ dynamic_constraints_cache' =
       IF dynamic_constraints_cache.built THEN dynamic_constraints_cache
       ELSE [built |-> TRUE, edges |-> build_dynamic_dependencies(catalog)]
  /\ \E silent_mode \in BOOLEAN, now \in NowValues,
          dynamic_constraints \in {build_dynamic_dependencies(catalog)} :
       IF ~silent_mode /\ ~validate_dag(catalog)
       THEN /\ pc' = "returned"
            /\ result' = "ValueError"
            /\ schedule_tasks_locals' = NoLocals
       ELSE /\ pc' = "schedule_tasks"
            /\ result' = "None"
            /\ schedule_tasks_locals' =
                 [ready_tasks |->
                    {<<calculate_task_priority(catalog, dynamic_constraints,
                                               EmptyMap, now, task), task>> :
                       task \in InitiallyReady(catalog, dynamic_constraints)},
                  task_retry_counts |-> [task \in TaskIds(catalog) |-> 0],
                  failed_tasks |-> {},
                  scheduled_count |-> 0,
                  iteration_count |-> 0,
                  now |-> now,
                  popped |-> None]
  /\ last_call' = "schedule_tasks"
  /\ solver_status' = "NOT_RUN"
  /\ UNCHANGED <<catalog, team_capacity, quality_team_capacity, customer_team_capacity,
                 global_priority_list, what_if_scheduler, app_vars>>

\* while ready_tasks and scheduled_count < total_tasks and iteration_count < max_iterations
LoopContinues ==
  /\ schedule_tasks_locals.ready_tasks # {}
  /\ schedule_tasks_locals.scheduled_count < Cardinality(TaskIds(catalog))
  /\ schedule_tasks_locals.iteration_count < Cardinality(TaskIds(catalog)) * 10

\* the place found for the popped task: <<start, shift, team_skill, team>>,
\* or why there is none
PlaceFor(c, sched, mech, qual, cust, task_instance_id, earliest_start) ==
  LET task_info == Tasks(c)[task_instance_id]
      search(team, is_quality, is_customer) ==
        get_next_working_time_with_capacity(c, sched, mech, qual, cust, earliest_start,
          task_info.product, team, task_info.mechanics_required, task_info.duration,
          is_quality, is_customer)
      customer_teams == {team \in DOMAIN cust :
                           /\ cust[team] >= task_info.mechanics_required
                           /\ search(team, FALSE, TRUE) # NoSlot}
      best_team == CHOOSE team \in customer_teams :
                     \A other \in customer_teams :
                       search(team, FALSE, TRUE)[1] <= search(other, FALSE, TRUE)[1]
      own_quality_team == QualityTeamOf(qual, task_info.team)
      primary_team == IF task_info.primary_task \in TaskIds(c)
                      THEN Tasks(c)[task_info.primary_task].team ELSE None
      quality_team == IF own_quality_team # None THEN own_quality_team
                      ELSE QualityTeamOf(qual, primary_team)
      team_for_scheduling == task_info.team_skill
      base_team == IF BaseTeamName(team_for_scheduling) # team_for_scheduling
                   THEN BaseTeamName(team_for_scheduling) ELSE task_info.team
      \* task_info['team'] = primary_team, when the inspection's own team
      \* maps to no quality team and its primary's team does
      recovered == IF /\ task_info.is_quality /\ ~task_info.is_customer
                      /\ own_quality_team = None /\ quality_team # None
                   THEN primary_team ELSE None
      none(kind) == [kind |-> kind, recovered |-> recovered]
      placed(slot, team, base) ==
        IF slot = NoSlot THEN none("no slot")
        ELSE [kind |-> "placed", start |-> slot[1], shift |-> slot[2],
              team_skill |-> team, team |-> base, recovered |-> recovered]
  IN  IF task_info.is_customer
      THEN IF customer_teams = {} THEN none("no slot")
           ELSE placed(search(best_team, FALSE, TRUE), best_team, best_team)
      ELSE IF task_info.is_quality
      THEN IF quality_team = None THEN none("no team")
           ELSE placed(search(quality_team, TRUE, FALSE), quality_team, quality_team)
      ELSE IF team_for_scheduling = None THEN none("exception")
      ELSE placed(search(team_for_scheduling, FALSE, FALSE), team_for_scheduling, base_team)

\* one pass through the body of the loop
ScheduleTasksIteration ==
  /\ pc = "schedule_tasks"
  /\ LoopContinues
  /\ \E top \in {HeapTop(schedule_tasks_locals.ready_tasks)} :
     \E earliest_start \in
          {EarliestStart(catalog, task_schedule,
                         SelectSeq(dynamic_constraints_cache.edges,
                                   LAMBDA e : e.Second = top[2]),
                         top[2])} :
     \E place \in {PlaceFor(catalog, task_schedule, team_capacity, quality_team_capacity,
                            customer_team_capacity, top[2], earliest_start)} :
     LET locals == schedule_tasks_locals
         priority == top[1]
         task_instance_id == top[2]
         popped == [locals EXCEPT !.ready_tasks = @ \ {top},
                                  !.iteration_count = @ + 1,
                                  !.popped = task_instance_id]
         task_info == Tasks(catalog)[task_instance_id]
         \* what scheduler.build_dynamic_dependencies() returned before the loop
         dynamic_constraints == dynamic_constraints_cache.edges
         constraints_by_second(task) == SelectSeq(dynamic_constraints, LAMBDA e : e.Second = task)
         retries == locals.task_retry_counts[task_instance_id] + 1
         retried(fails) ==
           [popped EXCEPT !.task_retry_counts[task_instance_id] = retries,
                          !.ready_tasks = IF retries < MaxRetries
                                          THEN @ \cup {<<priority + 1, task_instance_id>>}
                                          ELSE @,
                          !.failed_tasks = IF retries >= MaxRetries /\ fails
                                           THEN @ \cup {task_instance_id} ELSE @]
         written == [Entry(place.start, place.start + task_info.duration, task_info.duration,
                           place.team, task_info, place.shift, FALSE)
                       EXCEPT !.team_skill = place.team_skill]
         new_schedule == Updated(task_schedule, [k \in {Key(task_instance_id)} |-> written])
         recovered == IF place.recovered = None THEN catalog
                      ELSE [catalog EXCEPT !.tasks[task_instance_id].team = place.recovered]
         dependents == {dynamic_constraints[i].Second :
                          i \in {j \in DOMAIN dynamic_constraints :
                                   dynamic_constraints[j].First = task_instance_id}}
         newly_ready ==
           {dependent \in dependents :
              /\ Key(dependent) \notin DOMAIN new_schedule
              /\ dependent \notin locals.failed_tasks
              /\ \A i \in DOMAIN constraints_by_second(dependent) :
                   Key(constraints_by_second(dependent)[i].First) \in DOMAIN new_schedule
              /\ \A waiting \in popped.ready_tasks : waiting[2] # dependent}
     IN  IF locals.task_retry_counts[task_instance_id] >= MaxRetries
         THEN /\ schedule_tasks_locals' = [popped EXCEPT !.failed_tasks = @ \cup {task_instance_id}]
              /\ UNCHANGED <<task_schedule, catalog>>
         ELSE IF place.kind = "no team"
         THEN schedule_tasks_locals' = retried(FALSE) /\ UNCHANGED <<task_schedule, catalog>>
         ELSE IF place.kind \in {"no slot", "exception"}
         THEN /\ schedule_tasks_locals' = retried(TRUE)
              /\ catalog' = recovered
              /\ UNCHANGED task_schedule
         ELSE /\ catalog' = recovered
              /\ IF place.start >= FarFuture
                 THEN /\ schedule_tasks_locals' =
                           [popped EXCEPT !.failed_tasks = @ \cup {task_instance_id}]
                      /\ UNCHANGED task_schedule
                 ELSE /\ task_schedule' = new_schedule
                      /\ schedule_tasks_locals' =
                           [popped EXCEPT
                              !.scheduled_count = @ + 1,
                              !.ready_tasks = @ \cup
                                 {<<calculate_task_priority(catalog, dynamic_constraints,
                                                            new_schedule, locals.now,
                                                            dependent),
                                    dependent>> : dependent \in newly_ready}]
  /\ UNCHANGED <<team_capacity, quality_team_capacity, customer_team_capacity,
                 global_priority_list, dynamic_constraints_cache, what_if_scheduler,
                 pc, last_call, solver_status, result, app_vars>>

\* the loop is left and schedule_tasks returns
ScheduleTasksReturn ==
  /\ pc = "schedule_tasks"
  /\ ~LoopContinues
  /\ pc' = "returned"
  /\ schedule_tasks_locals' = NoLocals
  /\ UNCHANGED <<catalog, team_capacity, quality_team_capacity, customer_team_capacity,
                 task_schedule, global_priority_list, dynamic_constraints_cache,
                 what_if_scheduler, last_call, solver_status, result, app_vars>>

HeuristicNext ==
  \/ CallScheduleTasks
  \/ ScheduleTasksIteration
  \/ ScheduleTasksReturn
  \/ Return

HeuristicSpec == HeuristicInit /\ [][HeuristicNext]_vars

(* ------------------------- reading a schedule -------------------------- *)

\* a solve has just succeeded and its schedule is in the state
Produced ==
  /\ solver_status = "FEASIBLE"
  /\ last_call \in {"baseline", "scenario_1", "scenario_3", "what_if"}

ProducedByScenario ==
  /\ solver_status = "FEASIBLE"
  /\ last_call \in {"scenario_1", "scenario_3", "what_if"}

\* the schedule that run wrote and the capacities its scheduler holds
produced_schedule ==
  IF last_call = "what_if" THEN what_if_scheduler.task_schedule ELSE task_schedule

held_capacities ==
  IF last_call = "what_if"
  THEN MergedCapacities(what_if_scheduler.team_capacity,
                        what_if_scheduler.quality_team_capacity,
                        what_if_scheduler.customer_team_capacity)
  ELSE MergedCapacities(team_capacity, quality_team_capacity, customer_team_capacity)

PartsOf(sched, t) == {k \in DOMAIN sched : k[1] = t}
IsScheduled(sched, t) == PartsOf(sched, t) # {}
StartTime(sched, t) == Min({sched[k].start_time : k \in PartsOf(sched, t)})
EndTime(sched, t) == Max({sched[k].end_time : k \in PartsOf(sched, t)})

\* the key under which an entry draws on a capacity table
ResourceKey(entry) ==
  IF entry.is_quality \/ entry.is_customer THEN entry.team ELSE entry.team_skill

\* summed head-count of the entries on resource r that contain instant x
LoadAt(sched, r, x) ==
  LET busy == {k \in DOMAIN sched :
                 /\ ResourceKey(sched[k]) = r
                 /\ sched[k].start_time <= x /\ x < sched[k].end_time}
  IN  SumOver(busy, [k \in busy |-> sched[k].mechanics_required])

(* ------------------------------ C1 ------------------------------------- *)

RelationshipHolds(sched, e) ==
  CASE e.Relationship = "Finish <= Start" -> EndTime(sched, e.First) <= StartTime(sched, e.Second)
    [] e.Relationship = "Finish = Start" -> EndTime(sched, e.First) = StartTime(sched, e.Second)
    [] e.Relationship = "Start <= Start" -> StartTime(sched, e.First) <= StartTime(sched, e.Second)
    [] e.Relationship = "Start = Start" -> StartTime(sched, e.First) = StartTime(sched, e.Second)
    [] e.Relationship = "Finish <= Finish" -> EndTime(sched, e.First) <= EndTime(sched, e.Second)
    [] e.Relationship = "Start <= Finish" -> StartTime(sched, e.First) <= EndTime(sched, e.Second)
    [] OTHER -> TRUE

\* C1: in every schedule written by the baseline, scenario_1, scenario_3 or
\* the what-if scenario, every edge of the dynamic dependency graph whose two
\* tasks are scheduled has its relationship satisfied by the written times.
C1_EdgeRelationshipsHold ==
  Produced =>
    \A i \in DOMAIN DynamicConstraints[catalog] :
      LET e == DynamicConstraints[catalog][i]
      IN  (IsScheduled(produced_schedule, e.First) /\ IsScheduled(produced_schedule, e.Second))
            => RelationshipHolds(produced_schedule, e)

(* ------------------------------ C2 ------------------------------------- *)

\* C2: in every schedule written by a successful run, at every instant the
\* summed mechanics_required of the entries on a resource is at most the
\* capacity the scheduler holds for that resource after the run, a resource
\* missing from the capacity tables counting as capacity 0.  The load only
\* rises where an entry starts, so the starts are the instants examined.
C2_CapacityRespected ==
  Produced =>
    \A k \in DOMAIN produced_schedule :
      LET r == ResourceKey(produced_schedule[k])
      IN  LoadAt(produced_schedule, r, produced_schedule[k].start_time)
            <= Get(held_capacities, r, 0)

(* ------------------------------ C3 ------------------------------------- *)

\* the constraints of the three lists, resolved to task instances
OriginalSuccessions(c) ==
  {[predecessor |-> get_instance_id(c, all_constraints(c)[ip[1]].First, ip[2]),
    successor |-> get_instance_id(c, all_constraints(c)[ip[1]].Second, ip[2]),
    Relationship |-> normalize_relationship_type(all_constraints(c)[ip[1]].Relationship)] :
     ip \in {jq \in (DOMAIN all_constraints(c)) \X Range(c.delivery_order) :
               jq[2] \in Range(product_scope(c, all_constraints(c)[jq[1]]))}}

\* the QI and the CC of a primary task, in chain order
InspectionsOf(c, t) ==
  (IF t \in DOMAIN c.quality_requirements THEN <<c.quality_requirements[t]>> ELSE <<>>)
    \o (IF t \in DOMAIN c.customer_requirements THEN <<c.customer_requirements[t]>> ELSE <<>>)

\* end(T), start(QI), end(QI), start(CC), end(CC), start(S)
ChainTimes(c, sched, o) ==
  <<EndTime(sched, o.predecessor)>>
    \o Concat([i \in DOMAIN InspectionsOf(c, o.predecessor) |->
         <<StartTime(sched, InspectionsOf(c, o.predecessor)[i]),
           EndTime(sched, InspectionsOf(c, o.predecessor)[i])>>])
    \o <<StartTime(sched, o.successor)>>

NonDecreasing(seq) == \A i \in 1..(Len(seq) - 1) : seq[i] <= seq[i + 1]

\* a succession whose primary has an inspection, with every task scheduled
ChainScheduled(c, sched, o) ==
  /\ o.predecessor # None /\ o.successor # None
  /\ InspectionsOf(c, o.predecessor) # <<>>
  /\ \A t \in {o.predecessor, o.successor} \cup Range(InspectionsOf(c, o.predecessor)) :
       IsScheduled(sched, t)

FinishToStart(o) == o.Relationship \in {"Finish <= Start", "Finish = Start"}

\* C3 as stated: for every primary task T with a QI and/or CC and every
\* successor S of T in the original constraint lists, whatever the
\* relationship, every schedule written by a scenario or the baseline has
\* end(T) <= start(QI) <= end(QI) <= start(CC) <= end(CC) <= start(S).
C3_ChainForAnyRelationship ==
  Produced =>
    \A o \in OriginalSuccessions(catalog) :
      ChainScheduled(catalog, produced_schedule, o)
        => NonDecreasing(ChainTimes(catalog, produced_schedule, o))

\* C3 amended: end(T) <= start(QI) <= end(QI) <= start(CC) <= end(CC) holds
\* for every such T, and the last inspection ends no later than S starts
\* when the constraint's relationship is Finish <= Start or Finish = Start;
\* the terminal link carries the constraint's own relationship.
C3_ChainForFinishToStart ==
  Produced =>
    \A o \in OriginalSuccessions(catalog) :
      ChainScheduled(catalog, produced_schedule, o) =>
        LET times == ChainTimes(catalog, produced_schedule, o)
        IN  /\ NonDecreasing(SubSeq(times, 1, Len(times) - 1))
            /\ FinishToStart(o) => NonDecreasing(times)

\* the baseline has written a primary, its inspection and a finish-to-start
\* successor
C3_Witness ==
  /\ Produced /\ last_call = "baseline"
  /\ \E o \in OriginalSuccessions(catalog) :
       ChainScheduled(catalog, produced_schedule, o) /\ FinishToStart(o)

(* ------------------------------ C4 ------------------------------------- *)

\* C4: in every scenario result, for every Production, Late Part or Rework
\* task T with a QI, counting T's head-count as occupied from start(T) to
\* end(QI(T)), the summed head-count on T's mechanic resource stays within
\* the resource's capacity at every instant of that interval.
C4_MechanicHeldThroughInspection ==
  ProducedByScenario =>
    \A t \in DOMAIN catalog.quality_requirements :
      (/\ Tasks(catalog)[t].task_type \in {"Production", "Late Part", "Rework"}
       /\ IsScheduled(produced_schedule, t)
       /\ IsScheduled(produced_schedule, catalog.quality_requirements[t])) =>
        LET r == Tasks(catalog)[t].team_skill
            lo == StartTime(produced_schedule, t)
            hi == EndTime(produced_schedule, catalog.quality_requirements[t])
            others == {k \in DOMAIN produced_schedule :
                         k[1] # t /\ ResourceKey(produced_schedule[k]) = r}
            during == {k \in others : /\ lo <= produced_schedule[k].start_time
                                      /\ produced_schedule[k].start_time < hi}
        IN  \A x \in {lo} \cup {produced_schedule[k].start_time : k \in during} :
              Tasks(catalog)[t].mechanics_required
                + SumOver({k \in others : /\ produced_schedule[k].start_time <= x
                                          /\ x < produced_schedule[k].end_time},
                          [k \in others |-> produced_schedule[k].mechanics_required])
                <= Get(held_capacities, r, 0)

(* ------------------------------ C5 ------------------------------------- *)

\* the calendar days an entry's interval touches
DaysOf(entry) ==
  (entry.start_time \div MinutesPerCalendarDay)
    ..((entry.end_time - 1) \div MinutesPerCalendarDay)

\* C5: every interval of a written schedule lies inside one working window
\* on a working day of its task's product: every day it touches is a working
\* day of that product, and it lasts exactly the task's working time, so it
\* spans no non-working time.
C5_InsideWorkingTime ==
  Produced =>
    \A k \in DOMAIN produced_schedule :
      /\ \A d \in DaysOf(produced_schedule[k]) :
           is_working_day(catalog, d, produced_schedule[k].product)
      /\ produced_schedule[k].end_time - produced_schedule[k].start_time
           = produced_schedule[k].duration

(* ------------------------------ C6 ------------------------------------- *)

RECURSIVE FirstWorkingDay(_, _, _)
FirstWorkingDay(c, d, product) ==
  IF is_working_day(c, d, product) THEN d ELSE FirstWorkingDay(c, d + 1, product)

\* C6: a late-part instance with an on-dock date D that has a schedule entry
\* starts no earlier than 06:00 of the first working day of its product at
\* or after D + late_part_delay_days.
C6_LatePartReady ==
  Produced =>
    \A t \in catalog.late_part_tasks \cap DOMAIN catalog.on_dock_dates :
      IsScheduled(produced_schedule, t) =>
        StartTime(produced_schedule, t) >=
          FirstWorkingDay(catalog,
              (catalog.on_dock_dates[t] + late_part_delay_days * MinutesPerCalendarDay)
                 \div MinutesPerCalendarDay,
              Tasks(catalog)[t].product) * MinutesPerCalendarDay + OpeningMinute

(* ------------------------------ C7 ------------------------------------- *)

CapacitiesAreOriginal ==
  /\ team_capacity = original_team_capacity(catalog)
  /\ quality_team_capacity = original_quality_capacity(catalog)
  /\ customer_team_capacity = original_customer_team_capacity(catalog)

\* the positions from which the next scenario run begins
RunMayBegin == pc \in {"idle", "run_all_scenario1", "run_all_scenario3"}

\* C7: after any sequence of runs, when the next run is about to begin the
\* three capacity maps equal the originals captured at load.
C7_CapacitiesRestoredBeforeRun == RunMayBegin => CapacitiesAreOriginal

(* ------------------------------ C8 ------------------------------------- *)

\* C8: in the fixed-capacity model every assignment that satisfies the
\* precedence, late-part and capacity constraints is one the solver may
\* return, whatever the completion times are relative to the due dates, and
\* each product's lateness term is max(0, completion - due) in whole days of
\* 480 minutes, so a product that is on time contributes 0.
C8_LatenessIsMaxZero ==
  (last_call = "scenario_1" /\ solver_status # "NOT_RUN") =>
    /\ \A s \in ScenarioBaseFeasible[catalog] :
         FixedCapacityOK(catalog, s) => s \in Scenario1Solutions[catalog]
    /\ \A s \in Scenario1Solutions[catalog] : \A p \in FinalProducts(catalog) :
         LatenessValue(Completion(catalog, s, p),
                       date_to_minutes(catalog, catalog.delivery_dates[p]))
           = Max0(Completion(catalog, s, p)
                    - date_to_minutes(catalog, catalog.delivery_dates[p])) \div 480

(* ------------------------------ C9 ------------------------------------- *)

Scenario3Succeeded == last_call = "scenario_3" /\ solver_status = "FEASIBLE"

\* C9: after a successful scenario_3 run every capacity written back to
\* team_capacity, quality_team_capacity or customer_team_capacity is at
\* least 1, at least the mechanics_required of every task assigned to that
\* resource, and at most 100.
C9_OptimizedCapacityBounds ==
  Scenario3Succeeded =>
    \A written \in {team_capacity, quality_team_capacity, customer_team_capacity} :
      \A team \in DOMAIN written :
        /\ written[team] >= 1
        /\ written[team] <= 100
        /\ \A k \in DOMAIN task_schedule :
             task_schedule[k].team = team
               => written[team] >= task_schedule[k].mechanics_required

\* scenario_3 has written back a capacity for a team one of whose tasks
\* needs two mechanics
C9_Witness ==
  /\ Scenario3Succeeded
  /\ \E team \in DOMAIN team_capacity : \E k \in DOMAIN task_schedule :
       /\ task_schedule[k].team = team
       /\ task_schedule[k].mechanics_required = 2

(* ------------------------------ C10 ------------------------------------ *)

\* C10: whenever the solver ends without a solution, scenario_1, scenario_3
\* and the what-if scenario each return a status object marked FAILED.
C10_FailureReturnsFailedStatus ==
  (/\ last_call \in {"scenario_1", "scenario_3", "what_if"}
   /\ solver_status \in {"UNKNOWN", "INFEASIBLE"})
    => result = "FAILED"

(* ------------------------------ C11 ------------------------------------ *)

\* the step is a call whose solve ended without a solution
SolveFailed == solver_status' \in {"UNKNOWN", "INFEASIBLE"}

\* C11: when a solve ends without a solution no schedule is written: the
\* scheduler's task_schedule, priority list and three capacity maps are the
\* same after the call as before it, for the baseline, scenario_1,
\* scenario_3 and the what-if scenario.
C11_FailureWritesNothing ==
  [][SolveFailed =>
       UNCHANGED <<task_schedule, global_priority_list, team_capacity,
                   quality_team_capacity, customer_team_capacity>>]_vars

(* ------------------------------ C12 ------------------------------------ *)

\* the pairs (First, Second) of the edges with a relationship of rels
EdgePairs(dc, rels) ==
  {<<dc[i].First, dc[i].Second>> : i \in {j \in DOMAIN dc : dc[j].Relationship \in rels}}

AnyRelationship ==
  {"Finish <= Start", "Finish = Start", "Finish <= Finish", "Start <= Start",
   "Start = Start", "Start <= Finish"}

\* the nodes reachable from a node of S along the pairs of E
RECURSIVE Closure(_, _)
Closure(E, S) ==
  LET further == S \cup {e[2] : e \in {x \in E : x[1] \in S}}
  IN  IF further = S THEN S ELSE Closure(E, further)

Cyclic(E) == \E e \in E : e[1] \in Closure(E, {e[2]})

\* C12: if the dynamic dependency graph contains a cycle, the error is
\* raised at validation time and no solving step runs: no call ever ends
\* with a status of the solver.
C12_CycleStopsBeforeSolve ==
  Cyclic(EdgePairs(DynamicConstraints[catalog], AnyRelationship))
    => solver_status = "NOT_RUN"

(* ------------------------------ C13 ------------------------------------ *)

ValidateDagReturned == last_call = "validate_dag"

\* C13: validate_dag returns true if and only if every task named in a
\* dynamic edge is a defined task instance and the subgraph of the
\* 'Finish <= Start' and 'Finish = Start' edges has no cycle.
C13_ValidateDagIffAcyclic ==
  ValidateDagReturned =>
    ((result = "True") <=>
       /\ \A i \in DOMAIN dynamic_constraints_cache.edges :
            /\ dynamic_constraints_cache.edges[i].First \in TaskIds(catalog)
            /\ dynamic_constraints_cache.edges[i].Second \in TaskIds(catalog)
       /\ ~Cyclic(EdgePairs(dynamic_constraints_cache.edges,
                            {"Finish <= Start", "Finish = Start"})))

\* validate_dag has accepted a graph with a cycle through an edge that is
\* not finish-to-start
C13_Witness ==
  /\ ValidateDagReturned /\ result = "True"
  /\ Cyclic(EdgePairs(dynamic_constraints_cache.edges, AnyRelationship))

(* ------------------------------ C14 ------------------------------------ *)

\* the edge list build_dynamic_dependencies has returned
Built == dynamic_constraints_cache.built
built_edges == dynamic_constraints_cache.edges

HasEdge(dc, first, second) ==
  \E i \in DOMAIN dc : dc[i].First = first /\ dc[i].Second = second

HasEdgeOfType(dc, first, second, relationship) ==
  \E i \in DOMAIN dc :
    /\ dc[i].First = first /\ dc[i].Second = second
    /\ dc[i].Relationship = relationship

\* the original constraints, by position in the three lists and product,
\* whose two endpoints resolve to instances
ResolvedConstraints(c) ==
  {ip \in (DOMAIN all_constraints(c)) \X Range(c.delivery_order) :
     /\ ip[2] \in Range(product_scope(c, all_constraints(c)[ip[1]]))
     /\ get_instance_id(c, all_constraints(c)[ip[1]].First, ip[2]) # None
     /\ get_instance_id(c, all_constraints(c)[ip[1]].Second, ip[2]) # None}

\* A, QI(A), CC(A), B for the constraint at ip
ChainNodes(c, ip) ==
  LET A == get_instance_id(c, all_constraints(c)[ip[1]].First, ip[2])
  IN  <<A>> \o InspectionsOf(c, A)
        \o <<get_instance_id(c, all_constraints(c)[ip[1]].Second, ip[2])>>

\* C14: for every original constraint A -> B whose endpoints resolve, the
\* dynamic edge list holds the chain A -> QI(A) -> CC(A) -> B, skipping the
\* inspections A lacks, each inspection link being 'Finish <= Start', the
\* CC following the QI, and no direct edge A -> B when A has an inspection.
C14_ConstraintsAreChained ==
  Built =>
    \A ip \in ResolvedConstraints(catalog) :
      LET nodes == ChainNodes(catalog, ip)
      IN  /\ \A k \in 1..(Len(nodes) - 2) :
               HasEdgeOfType(built_edges, nodes[k], nodes[k + 1], "Finish <= Start")
          /\ HasEdge(built_edges, nodes[Len(nodes) - 1], nodes[Len(nodes)])
          /\ Len(nodes) > 2 => ~HasEdge(built_edges, nodes[1], nodes[Len(nodes)])

\* a constraint whose predecessor has both inspections has been chained
C14_Witness ==
  /\ Built
  /\ \E ip \in ResolvedConstraints(catalog) : Len(ChainNodes(catalog, ip)) = 4

(* ------------------------------ C15 ------------------------------------ *)

\* the relationship the file states for the constraint at position i: the
\* 'Relationship Type' of a baseline row, the relationship of a late-part
\* or rework row
StatedRelationship(c, i) ==
  IF i <= Len(c.precedence_constraints)
  THEN c.precedence_constraints[i].Relationship_Type
  ELSE all_constraints(c)[i].Relationship

\* C15: the final link of every chain carries the normalized relationship
\* of the original constraint it was built from, for baseline, late-part
\* and rework constraints alike, whatever relationship a baseline row's
\* 'Relationship Type' names.
C15_FinalLinkKeepsRelationship ==
  Built =>
    \A ip \in ResolvedConstraints(catalog) :
      LET nodes == ChainNodes(catalog, ip)
      IN  HasEdgeOfType(built_edges, nodes[Len(nodes) - 1], nodes[Len(nodes)],
            normalize_relationship_type(StatedRelationship(catalog, ip[1])))

(* ------------------------------ C16 ------------------------------------ *)

\* C16: every QI and CC of the inspection maps is the successor of an edge
\* that starts at its primary or, for a CC whose primary has a QI, at that
\* QI, also when the primary is never the predecessor of a resolved
\* constraint.
C16_InspectionsAreLinked ==
  Built =>
    /\ \A t \in DOMAIN catalog.quality_requirements :
         HasEdge(built_edges, t, catalog.quality_requirements[t])
    /\ \A t \in DOMAIN catalog.customer_requirements :
         HasEdge(built_edges,
                 IF t \in DOMAIN catalog.quality_requirements
                 THEN catalog.quality_requirements[t] ELSE t,
                 catalog.customer_requirements[t])

\* the edges are built for a primary with both inspections that is never a
\* predecessor
C16_Witness ==
  /\ Built
  /\ \E t \in (DOMAIN catalog.quality_requirements) \cap (DOMAIN catalog.customer_requirements) :
       t \notin processed_predecessors(catalog)

(* ------------------------------ C17 ------------------------------------ *)

\* C17: a scenario builds the same model whenever it runs, whatever runs
\* came before: the model depends only on the loaded data and the captured
\* original capacities.  The models of scenario_1 and of the what-if
\* scenario are functions of the loaded data alone; the solutions of the
\* model scenario_3 would build are the same after every step.
C17_SameModelEveryRun ==
  [][catalog' = catalog /\ Scenario3Solutions' = Scenario3Solutions]_vars

(* ------------------------------ C18 ------------------------------------ *)

\* the optimal solutions of the what-if model and of the fixed-capacity model
WhatIfOptima(c, A) ==
  {w \in WhatIfSolutions[c][A] :
     \A x \in WhatIfSolutions[c][A] : WhatIfObjective(c, w, A) <= WhatIfObjective(c, x, A)}

Scenario1Optima(c) ==
  {s \in Scenario1Solutions[c] :
     \A x \in Scenario1Solutions[c] : Scenario1Objective(c, s) <= Scenario1Objective(c, x)}

WhatIfSolved == last_call = "what_if" /\ solver_status = "FEASIBLE"

\* C18: on the data of a what-if run, for every product A the optimum of
\* the what-if model that prioritizes A completes A no later than the
\* optimum of the fixed-capacity model does.
C18_PriorityNeverDelaysProduct ==
  WhatIfSolved =>
    \A A \in WhatIfProducts(catalog) :
      \A w \in WhatIfOptima(catalog, A) : \A s \in Scenario1Optima(catalog) :
        PrioritizedCompletion(catalog, w, A) <= PrioritizedCompletion(catalog, s, A)

\* a what-if run on data with two products, where prioritizing a product
\* completes it strictly earlier than the fixed-capacity optimum
C18_Witness ==
  /\ WhatIfSolved
  /\ Cardinality(WhatIfProducts(catalog)) = 2
  /\ \E A \in WhatIfProducts(catalog) :
       \E w \in WhatIfOptima(catalog, A) : \E s \in Scenario1Optima(catalog) :
         PrioritizedCompletion(catalog, w, A) < PrioritizedCompletion(catalog, s, A)

(* ------------------------------ C19 ------------------------------------ *)

\* the fixed-capacity scenario has returned on the data of scenario S-A
Scenario1ReturnedOnSequence ==
  pc = "returned" /\ last_call = "scenario_1" /\ catalog = SequenceCatalog

\* C19: on the minimal data set (one product, a 60-minute task followed by
\* a 120-minute task on one resource of capacity 1, no inspections, no late
\* parts) the fixed-capacity scenario succeeds, and its schedule ends the
\* first task at minute 60, runs the second from minute 60 to minute 180,
\* and has lateness 0.
C19_MinimalScenarioSchedule ==
  Scenario1ReturnedOnSequence =>
    /\ result = "SUCCESS"
    /\ solver_status = "FEASIBLE"
    /\ IsScheduled(task_schedule, "P1_1") /\ IsScheduled(task_schedule, "P1_2")
    /\ EndTime(task_schedule, "P1_1") = minutes_to_date(catalog, 60)
    /\ StartTime(task_schedule, "P1_2") = minutes_to_date(catalog, 60)
    /\ EndTime(task_schedule, "P1_2") = minutes_to_date(catalog, 180)
    /\ Scenario1Objective(catalog, [t \in TaskIds(catalog) |-> IF t = "P1_1" THEN 0 ELSE 60]) = 0

(* ------------------------------ C20 ------------------------------------ *)

\* the keys of a schedule with one unsuffixed entry per task instance
WholeTaskKeys == {<<t, 0>> : t \in TaskIds(catalog)}

\* the keys of a schedule that has two part entries for every task of two
\* hours or more and one unsuffixed entry for every other task
TwoHourSplitKeys ==
  UNION {IF Tasks(catalog)[t].duration >= 120 THEN {<<t, 1>>, <<t, 2>>} ELSE {<<t, 0>>} :
           t \in TaskIds(catalog)}

MakespanReturned == pc = "returned" /\ last_call = "calculate_makespan"

\* the working days from the day of the earliest start to the day of the
\* latest end of a schedule
WorkingDaysSpanned(sched) ==
  LET first == Min({sched[k].start_time \div MinutesPerCalendarDay : k \in DOMAIN sched})
      last == Max({sched[k].end_time \div MinutesPerCalendarDay : k \in DOMAIN sched})
  IN  Cardinality({d \in first..last :
        \E p \in DOMAIN catalog.delivery_dates : is_working_day(catalog, d, p)})

\* C21: calculate_makespan returns 999999 whenever some task instance has
\* no schedule entry (an empty schedule included), and otherwise the number
\* of working days from the earliest scheduled start to the latest
\* scheduled end.
C21_MakespanOrSentinel ==
  MakespanReturned =>
    result = ToString(IF \E t \in TaskIds(catalog) : ~IsScheduled(task_schedule, t)
                      THEN 999999 ELSE WorkingDaysSpanned(task_schedule))

(* ------------------------------ C22 ------------------------------------ *)

ConflictsReturned == pc = "returned" /\ last_call = "check_resource_conflicts"

\* a resource and an instant at which the entries on the resource need more
\* heads than the scheduler holds for it
Overloaded(sched) ==
  \E k \in DOMAIN sched :
    LoadAt(sched, ResourceKey(sched[k]), sched[k].start_time)
      > Get(MergedCapacities(team_capacity, quality_team_capacity, customer_team_capacity),
            ResourceKey(sched[k]), 0)

FileLoaded == pc = "loaded"

\* the task instances of the loaded scheduler, by instance id
LoadedTasks ==
  [id \in Range(Keys(catalog.scheduler.tasks)) |-> Lookup(catalog.scheduler.tasks, id, None)]

IsInspection(info) == info.is_quality \/ info.is_customer

\* C23: after load_data_from_csv every quality or customer inspection
\* instance names one primary, the primary is a task instance that is not an
\* inspection, and no primary is named by two quality inspections or by two
\* customer inspections.
C23_OneInspectionPerPrimary ==
  FileLoaded =>
    /\ \A id \in DOMAIN LoadedTasks :
         IsInspection(LoadedTasks[id]) =>
           /\ LoadedTasks[id].primary_task \in DOMAIN LoadedTasks
           /\ ~IsInspection(LoadedTasks[LoadedTasks[id].primary_task])
    /\ \A id \in DOMAIN LoadedTasks : \A other \in DOMAIN LoadedTasks :
         ( /\ id # other
           /\ IsInspection(LoadedTasks[id])
           /\ LoadedTasks[id].is_quality = LoadedTasks[other].is_quality
           /\ LoadedTasks[id].is_customer = LoadedTasks[other].is_customer )
           => LoadedTasks[id].primary_task # LoadedTasks[other].primary_task

(* ------------------------------ C24 ------------------------------------ *)

\* C24: after load_data_from_csv every task instance has a resource key
\* (team_skill for mechanic work, team for an inspection) that is a key of
\* the matching capacity table, and the primary of every inspection is a
\* task instance.
C24_ResourceKeysHaveCapacity ==
  FileLoaded =>
    \A id \in DOMAIN LoadedTasks :
      /\ IF LoadedTasks[id].is_quality
         THEN LoadedTasks[id].team \in Range(Keys(catalog.scheduler.quality_team_capacity))
         ELSE IF LoadedTasks[id].is_customer
         THEN LoadedTasks[id].team \in Range(Keys(catalog.scheduler.customer_team_capacity))
         ELSE LoadedTasks[id].team_skill \in Range(Keys(catalog.scheduler.team_capacity))
      /\ IsInspection(LoadedTasks[id]) => LoadedTasks[id].primary_task \in DOMAIN LoadedTasks

(* ------------------------------ C25 ------------------------------------ *)

\* the late-part and rework constraints of the loaded scheduler
ForwardConstraints ==
  Range(catalog.scheduler.late_part_constraints) \cup Range(catalog.scheduler.rework_constraints)

\* the baseline instances of the tasks in a set of task ids
BaselineInstancesOf(ids) ==
  {catalog.scheduler.task_instance_map[k] :
     k \in {x \in DOMAIN catalog.scheduler.task_instance_map : ToString(x[2]) \in ids}}

\* the baseline instances nearest to a set of tasks along the constraints
RECURSIVE FirstBaselinesReached(_, _)
FirstBaselinesReached(frontier, seen) ==
  IF frontier = {} THEN {}
  ELSE IF BaselineInstancesOf(frontier) # {} THEN BaselineInstancesOf(frontier)
  ELSE FirstBaselinesReached(
         {k.Second : k \in {x \in ForwardConstraints : x.First \in frontier}}
            \ (seen \cup frontier),
         seen \cup frontier)

\* the declared team of a late part or rework task
DeclaredTeam(id) ==
  LET rows == Range(catalog.sections.late_parts_task_details)
                \cup Range(catalog.sections.rework_task_details)
  IN  (CHOOSE row \in rows : row.Task = id).Resource_Type

\* the keys of the mechanic capacity table that are skills of a base team
SkillsInTable(base_team) ==
  SelectSeq(Keys(catalog.scheduler.team_capacity),
            LAMBDA team : BaseTeamName(team) = base_team /\ team # base_team)

\* C25: a late-part or rework instance from which a baseline instance is
\* reachable along the late-part and rework constraints has the team, the
\* skill and the product of a nearest such baseline instance; one with no
\* reachable baseline has its declared team and the first skill of that
\* team in the capacity table.
C25_InheritedFromBaseline ==
  FileLoaded =>
    \A id \in {x \in DOMAIN LoadedTasks : LoadedTasks[x].task_type \in {"Late Part", "Rework"}} :
      LET nearest == FirstBaselinesReached({id}, {})
      IN  IF nearest # {}
          THEN \E b \in nearest :
                 /\ LoadedTasks[id].team = LoadedTasks[b].team
                 /\ LoadedTasks[id].skill = LoadedTasks[b].skill
                 /\ LoadedTasks[id].team_skill = LoadedTasks[b].team_skill
                 /\ LoadedTasks[id].product = LoadedTasks[b].product
          ELSE /\ LoadedTasks[id].team = DeclaredTeam(id)
               /\ SkillsInTable(DeclaredTeam(id)) # <<>> =>
                    LoadedTasks[id].team_skill = SkillsInTable(DeclaredTeam(id))[1]

(* ------------------------------ C26 ------------------------------------ *)

\* C26: for the two conversions a scenario builds from its data,
\* date_to_minutes(minutes_to_date(m)) = m for every working-minute index m
\* from 0 to the horizon.
C26_MinutesRoundTrip ==
  ProducedByScenario =>
    \A m \in 0..ScenarioHorizon(catalog) :
      date_to_minutes(catalog, minutes_to_date(catalog, m)) = m

(* ------------------------------ C27 ------------------------------------ *)

\* a populated cache holds what a fresh build gives on the current data
CacheIsFresh ==
  dynamic_constraints_cache.built =>
    dynamic_constraints_cache.edges = build_dynamic_dependencies(catalog)

\* C27: whenever the cache of dynamic constraints is populated it equals the
\* list build_dynamic_dependencies computes afresh from the current
\* constraint lists and inspection maps; a call that finds the cache
\* populated leaves it as it is, and a reload leaves it empty.
C27_CacheMatchesFreshBuild ==
  /\ []CacheIsFresh
  /\ [][dynamic_constraints_cache.built /\ last_call' # "load"
          => dynamic_constraints_cache' = dynamic_constraints_cache]_vars
  /\ [][last_call' = "load" => ~dynamic_constraints_cache'.built]_vars

\* the cache was populated, the file was loaded again and made the lists
\* longer, and the cache is populated again
C27_Witness ==
  /\ dynamic_constraints_cache.built
  /\ last_call = "build_dynamic_dependencies"
  /\ catalog \notin LoadedCatalogs
  /\ Len(catalog.late_part_constraints) = 2
  /\ Len(dynamic_constraints_cache.edges) > 2

(* ------------------------------ C28 ------------------------------------ *)

ReadEndpoints ==
  {"get_scenario_data", "get_scenario_summary", "get_team_tasks", "get_task_chain"}

\* C28: a result stored in scenario_results is never altered after it is
\* stored, by a later scenario run or by a read endpoint (the content and
\* order of its task list, its capacities, its dependency lists), and the
\* read endpoints leave scheduler.tasks as it is.
C28_StoredResultsAreFrozen ==
  [][/\ \A id \in DOMAIN scenario_results :
          id \in DOMAIN scenario_results' /\ scenario_results'[id] = scenario_results[id]
     /\ last_call' \in ReadEndpoints =>
          catalog' = catalog /\ tasks_with_taskId' = tasks_with_taskId]_vars

(* ------------------------------ C29 ------------------------------------ *)

IsProduction(t) == Tasks(catalog)[t].task_type = "Production"
DeliveryOf(t) == catalog.delivery_dates[Tasks(catalog)[t].product]
TailOf(t) == calculate_critical_path_length(catalog, build_dynamic_dependencies(catalog), t)
DurationOf(t) == Tasks(catalog)[t].duration

\* b has the higher priority, the other factors being equal
OutranksCeterisParibus(b, a) ==
  \/ DeliveryOf(b) < DeliveryOf(a) /\ TailOf(b) = TailOf(a) /\ DurationOf(b) = DurationOf(a)
  \/ DeliveryOf(b) = DeliveryOf(a) /\ TailOf(b) > TailOf(a) /\ DurationOf(b) = DurationOf(a)
  \/ DeliveryOf(b) = DeliveryOf(a) /\ TailOf(b) = TailOf(a) /\ DurationOf(b) < DurationOf(a)

\* the loop of schedule_tasks pops a task
Pops ==
  /\ pc = "schedule_tasks"
  /\ schedule_tasks_locals'.iteration_count = schedule_tasks_locals.iteration_count + 1

\* C29: when schedule_tasks pops a Production instance, no Production
\* instance left in the ready queue outranks it: none that, the other two
\* factors being equal, has the earlier delivery date, the longer
\* critical-path tail or the shorter duration.
C29_PopsHighestPriority ==
  [][Pops =>
       LET popped == schedule_tasks_locals'.popped
       IN  IsProduction(popped) =>
             \A waiting \in schedule_tasks_locals.ready_tasks :
               (waiting[2] # popped /\ IsProduction(waiting[2])) =>
                 ~OutranksCeterisParibus(waiting[2], popped)]_vars

(* ------------------------------ C30 ------------------------------------ *)

\* the tasks that get their entry in this step
NewlyScheduled == {k[1] : k \in (DOMAIN task_schedule') \ (DOMAIN task_schedule)}

\* the bound an incoming edge puts on the start of its successor
EdgeHolds(sched, edge) ==
  CASE edge.Relationship \in {"Finish <= Start", "Finish = Start"} ->
         sched[Key(edge.Second)].start_time >= sched[Key(edge.First)].end_time
    [] edge.Relationship \in {"Start <= Start", "Start = Start"} ->
         sched[Key(edge.Second)].start_time >= sched[Key(edge.First)].start_time
    [] OTHER -> TRUE

\* C30: schedule_tasks gives an instance its entry only when every
\* predecessor on its incoming dynamic edges has one, and the start it
\* gives satisfies every incoming edge: not before the end of a
\* 'Finish <= Start' or 'Finish = Start' predecessor, not before the start
\* of a 'Start <= Start' or 'Start = Start' predecessor.
C30_EntryAfterPredecessors ==
  [][pc = "schedule_tasks" =>
       \A v \in NewlyScheduled :
         LET dynamic_constraints == build_dynamic_dependencies(catalog)
         IN  \A i \in DOMAIN dynamic_constraints :
               dynamic_constraints[i].Second = v =>
                 /\ Key(dynamic_constraints[i].First) \in DOMAIN task_schedule
                 /\ EdgeHolds(task_schedule', dynamic_constraints[i])]_vars

(* ------------------------------ C31 ------------------------------------ *)

\* schedule_tasks is running or has just returned
InScheduleTasks == last_call = "schedule_tasks" /\ pc \in {"schedule_tasks", "returned"}

\* C31: after every iteration of schedule_tasks, at every instant the
\* summed mechanics_required of the entries on a mechanic, quality or
\* customer resource is at most the capacity of that resource.  The load
\* only rises where an entry starts, so the starts are the instants examined.
C31_HeuristicCapacityRespected ==
  InScheduleTasks =>
    \A k \in DOMAIN task_schedule :
      LoadAt(task_schedule, ResourceKey(task_schedule[k]), task_schedule[k].start_time)
        <= Get(MergedCapacities(team_capacity, quality_team_capacity, customer_team_capacity),
               ResourceKey(task_schedule[k]), 0)

\* two entries on one resource of capacity 1, the later one pushed past the
\* start date by the capacity check
C31_Witness ==
  /\ InScheduleTasks
  /\ \E k1, k2 \in DOMAIN task_schedule :
       /\ k1 # k2
       /\ ResourceKey(task_schedule[k1]) = ResourceKey(task_schedule[k2])
       /\ Get(team_capacity, ResourceKey(task_schedule[k1]), 0) = 1
       /\ task_schedule[k1].start_time = start_date
       /\ task_schedule[k2].start_time >= task_schedule[k1].end_time

(* ------------------------------ C32 ------------------------------------ *)

\* the window of a shift that opens on calendar day d: a shift whose start
\* clock is after its end clock runs into the next day
WindowOpeningOn(shift, d) ==
  IF shift_hours[shift].start > shift_hours[shift].end
  THEN <<d * MinutesPerCalendarDay + shift_hours[shift].start,
         (d + 1) * MinutesPerCalendarDay + shift_hours[shift].end>>
  ELSE <<d * MinutesPerCalendarDay + shift_hours[shift].start,
         d * MinutesPerCalendarDay + shift_hours[shift].end>>

\* the entry lies in a window of one of its team's shifts that opens on a
\* working day of its product
InWorkingWindow(c, entry) ==
  LET shifts == ShiftsOf(c, entry.team_skill, entry.is_quality, entry.is_customer)
  IN  \E i \in DOMAIN shifts :
        \E d \in {DateOf(entry.start_time) - 1, DateOf(entry.start_time)} :
          /\ is_working_day(c, d, entry.product)
          /\ WindowOpeningOn(shifts[i], d)[1] <= entry.start_time
          /\ entry.end_time <= WindowOpeningOn(shifts[i], d)[2]

\* C32: every entry schedule_tasks writes starts on a quarter of an hour and
\* lies, from start to end, in one window of a shift of its team, and the
\* day on which that window opens is a working day of the task's product.
C32_InsideShiftOnWorkingDay ==
  InScheduleTasks =>
    \A k \in DOMAIN task_schedule :
      /\ task_schedule[k].start_time % 15 = 0
      /\ InWorkingWindow(catalog, task_schedule[k])

(* ------------------------------ C33 ------------------------------------ *)

\* the instances whose slot search has failed for the third time
Exhausted ==
  {t \in DOMAIN schedule_tasks_locals.task_retry_counts :
     schedule_tasks_locals.task_retry_counts[t] >= MaxRetries}

\* C33: while schedule_tasks runs no instance has more than three failed
\* slot searches, and an instance whose third search failed is in the
\* failed set, is not in the ready queue and has no schedule entry, whether
\* it is a mechanic, a quality or a customer instance.
C33_ThreeAttemptsThenFailed ==
  pc = "schedule_tasks" =>
    /\ \A t \in DOMAIN schedule_tasks_locals.task_retry_counts :
         schedule_tasks_locals.task_retry_counts[t] <= MaxRetries
    /\ \A t \in Exhausted :
         /\ t \in schedule_tasks_locals.failed_tasks
         /\ \A waiting \in schedule_tasks_locals.ready_tasks : waiting[2] # t
         /\ Key(t) \notin DOMAIN task_schedule

(* ------------------------------ C34 ------------------------------------ *)

\* the direct successors of task t that have an entry
ScheduledSuccessors(c, sched, t) == {s \in get_successors(c, t) : IsScheduled(sched, s)}

\* the slack the entry under key k should have, in minutes
ExpectedSlack(c, sched, k) ==
  LET gaps == {StartTime(sched, s) - sched[k].end_time :
                 s \in ScheduledSuccessors(c, sched, k[1])}
  IN  IF gaps # {}
      THEN IF Min(gaps) > SlackLimit THEN Infinity ELSE Max0(Min(gaps))
      ELSE Max0(c.delivery_dates[Tasks(c)[k[1]].product] - sched[k].end_time)

\* C34: for a scheduled task with at least one scheduled successor
\* calculate_slack_time is the least start(s) - end(t) over its direct
\* successors s, floored at 0 and infinite above one year; for a scheduled
\* task with no successors it is dueDate(product) - end(t), floored at 0.
C34_SlackFromSuccessorsOrDueDate ==
  Produced =>
    \A k \in DOMAIN produced_schedule :
      (\/ ScheduledSuccessors(catalog, produced_schedule, k[1]) # {}
       \/ /\ get_successors(catalog, k[1]) = {}
          /\ Tasks(catalog)[k[1]].product \in DOMAIN catalog.delivery_dates)
      => calculate_slack_time(catalog, produced_schedule, k, k[1])
           = ExpectedSlack(catalog, produced_schedule, k)

(* ------------------------------ C35 ------------------------------------ *)

\* the priority list of the scheduler that holds the produced schedule
produced_priority_list ==
  IF last_call = "what_if" THEN what_if_scheduler.global_priority_list
  ELSE global_priority_list

\* (scheduled_start, slack_hours) of a before that of b, or the same
StartThenSlackLeq(a, b) ==
  \/ a.scheduled_start < b.scheduled_start
  \/ a.scheduled_start = b.scheduled_start /\ a.slack_minutes <= b.slack_minutes

\* C35: after every successful run the priority list of the resulting
\* scheduler has exactly one record per schedule entry, in non-decreasing
\* order of (start_time, slack_hours).  The global_priority of a record is
\* its position in the list, as enumerate(priority_data, 1) assigns it, so
\* the ordinals are 1..n without gaps or repeats.
C35_PriorityListSortedAndComplete ==
  Produced =>
    /\ Len(produced_priority_list) = Cardinality(DOMAIN produced_schedule)
    /\ {produced_priority_list[i].task_instance_id : i \in DOMAIN produced_priority_list}
         = DOMAIN produced_schedule
    /\ \A i, j \in DOMAIN produced_priority_list :
         i < j => StartThenSlackLeq(produced_priority_list[i], produced_priority_list[j])
    /\ \A i \in DOMAIN produced_priority_list :
         produced_priority_list[i].scheduled_start
           = produced_schedule[produced_priority_list[i].task_instance_id].start_time

\* a successful run whose list is not in the order the entries were written
C35_Witness ==
  /\ Produced
  /\ Len(produced_priority_list) >= 3
  /\ <<produced_priority_list[1].task_instance_id, produced_priority_list[2].task_instance_id>>
       # <<ScheduleOrder(catalog.task_order, produced_schedule)[1],
           ScheduleOrder(catalog.task_order, produced_schedule)[2]>>

(* ----------------------------------- C36 ------------------------------- *)
\* two stored assignments of one mechanic id whose intervals overlap
Overlapping(list) ==
  \E i, j \in DOMAIN list :
    i # j /\ list[i].startTime < list[j].endTime /\ list[j].startTime < list[i].endTime

\* C36: after any sequence of POST /api/auto_assign calls for a scenario, no
\* mechanic id's stored list holds two tasks whose intervals overlap, and
\* get_mechanic_assigned_tasks answers hasConflicts = false.
C36_NoOverlappingAssignments ==
  /\ \A scenario \in DOMAIN mechanic_assignments :
       \A id \in DOMAIN mechanic_assignments[scenario] :
         ~Overlapping(mechanic_assignments[scenario][id])
  /\ last_call = "get_mechanic_assigned_tasks" => result # "hasConflicts: true"

(* ----------------------------------- C37 ------------------------------- *)
\* the three states of an instance when schedule_tasks returns
HasEntry(t) == Key(t) \in DOMAIN task_schedule
RecordedFailed(t) == t \in schedule_tasks_locals.failed_tasks
WaitsForPredecessor(t) ==
  \E i \in DOMAIN dynamic_constraints_cache.edges :
    /\ dynamic_constraints_cache.edges[i].Second = t
    /\ Key(dynamic_constraints_cache.edges[i].First) \notin DOMAIN task_schedule

StatesOf(t) ==
  {s \in {"entry", "failed", "waits"} :
     \/ s = "entry" /\ HasEntry(t)
     \/ s = "failed" /\ RecordedFailed(t)
     \/ s = "waits" /\ WaitsForPredecessor(t)}

\* C37: schedule_tasks always terminates (every pass of its loop raises
\* iteration_count, which never exceeds max_iterations), and when it returns
\* every instance is in exactly one of three states: it has a schedule
\* entry, it is recorded as failed, or one of its predecessors has no
\* schedule entry.
C37_TerminatesInOneOfThreeStates ==
  [][/\ (pc = "schedule_tasks" /\ pc' = "schedule_tasks") =>
          /\ schedule_tasks_locals'.iteration_count = schedule_tasks_locals.iteration_count + 1
          /\ schedule_tasks_locals'.iteration_count <= Cardinality(TaskIds(catalog)) * 10
     /\ (pc = "schedule_tasks" /\ pc' = "returned") =>
          \A t \in TaskIds(catalog) : Cardinality(StatesOf(t)) = 1]_vars

(* ----------------------------------- C38 ------------------------------- *)
\* run_all_scenarios stores the result of scenario name in this step
Stores(name) == pc = "run_all_export_" \o name /\ name \in DOMAIN scenario_results'

\* the solve of the scenario that has just run found no schedule, or the
\* scenario returned before it solved
OwnSolveFailed == solver_status # "FEASIBLE"

MarkedFailed(stored) == "status" \in DOMAIN stored /\ stored.status = "FAILED"

\* the entries of a stored result
StoredEntries(stored) ==
  {<<stored.tasks[i].taskId, stored.tasks[i].startTime, stored.tasks[i].endTime>> :
     i \in DOMAIN stored.tasks}

\* C38: after run_all_scenarios each stored result holds only the schedule
\* of that scenario's own solve; when the solve fails or returns no result,
\* the stored result is marked failed and carries no task entries.
C38_StoredResultIsOwnSchedule ==
  [][\A name \in {"baseline", "scenario1", "scenario3"} :
       Stores(name) =>
         IF OwnSolveFailed
         THEN MarkedFailed(scenario_results'[name]) /\ scenario_results'[name].tasks = <<>>
         ELSE StoredEntries(scenario_results'[name]) \subseteq
                {<<k, task_schedule[k].start_time, task_schedule[k].end_time>> :
                   k \in DOMAIN task_schedule}]_vars

(* ----------------------------------- C39 ------------------------------- *)
\* a step of run_what_if_scenario
WhatIfStep == pc = "idle" /\ pc' = "what_if"

\* C39: run_what_if_scenario leaves the scheduler it is given unchanged on
\* success and on failure: task_schedule, global_priority_list, tasks and
\* the three capacity maps are the same before and after the call; the
\* what-if schedule is written only to the copy that is returned.
C39_WhatIfLeavesSchedulerUnchanged ==
  [][WhatIfStep =>
       /\ task_schedule' = task_schedule
       /\ global_priority_list' = global_priority_list
       /\ catalog'.tasks = catalog.tasks
       /\ team_capacity' = team_capacity
       /\ quality_team_capacity' = quality_team_capacity
       /\ customer_team_capacity' = customer_team_capacity
       /\ result' = "scheduler" =>
            /\ what_if_scheduler'.present
            /\ DOMAIN what_if_scheduler'.task_schedule = TaskIds(catalog) \X {0}
       /\ result' # "scheduler" => what_if_scheduler' = NoScheduler]_vars

\* a what-if run has returned a copy whose schedule and capacities differ
\* from those of the scheduler, which holds the schedule of an earlier run
C39_Witness ==
  /\ pc = "what_if" /\ what_if_scheduler.present
  /\ task_schedule # EmptyMap
  /\ what_if_scheduler.task_schedule # task_schedule
  /\ what_if_scheduler.team_capacity # team_capacity

(* ----------------------------------- C40 ------------------------------- *)
\* the subgraph of the 'Finish <= Start' and 'Finish = Start' edges
FinishStartEdges ==
  {<<e.First, e.Second>> : e \in Range(CycleGraphEdges(dynamic_constraints_cache.edges))}

RECURSIVE ReachableFrom(_, _)
ReachableFrom(E, S) ==
  LET next == S \cup {e[2] : e \in {d \in E : d[1] \in S}}
  IN  IF next = S THEN S ELSE ReachableFrom(E, next)

IsAcyclic(E) == \A e \in E : e[1] \notin ReachableFrom(E, {e[2]})

IsClosedWalk(E, walk) ==
  /\ Len(walk) >= 2
  /\ walk[1] = walk[Len(walk)]
  /\ \A i \in 1..(Len(walk) - 1) : <<walk[i], walk[i + 1]>> \in E

FindReturned == last_call = "find_dependency_cycles" /\ pc = "returned"

\* C40: find_dependency_cycles raises no error for any dynamic graph, returns
\* an empty list exactly when the subgraph of 'Finish <= Start' and
\* 'Finish = Start' edges is acyclic, and every path it returns is a closed
\* walk along edges of that subgraph.
C40_CyclesFoundWithoutError ==
  FindReturned =>
    /\ ~result.raised
    /\ result.cycles = <<>> <=> IsAcyclic(FinishStartEdges)
    /\ \A i \in DOMAIN result.cycles : IsClosedWalk(FinishStartEdges, result.cycles[i])
====
